---------------------------- MODULE Spec2Model ----------------------------
(***************************************************************************)
(* A model of the style linter of the SICP study repository (linter.c).    *)
(*                                                                         *)
(* The linter reads each file named on the command line line by line and   *)
(* runs lint_line on every line with a State that is carried from line to  *)
(* line.  A line is a sequence of characters (one-character strings) that  *)
(* ends with "\n"; columns are 0-based as in the C code, so line[i] of the  *)
(* code is At(line, i) here.  A C string is a sequence of characters       *)
(* followed by NUL, whose code is 0.                                       *)
(***************************************************************************)
EXTENDS Integers, Sequences, FiniteSets, TLC

(***************************************************************************)
(* Bounds of the model.                                                    *)
(***************************************************************************)
\* Number of file arguments on the command line (specification Spec).
MaxFiles == 2
\* Number of lines getline delivers for one file.
MaxLines == 3
\* Largest column at which the short lines of code of SpecIndent start.
MaxIndent == 4

(***************************************************************************)
(* Program constants.                                                      *)
(***************************************************************************)
MAX_COLUMNS == 80
MAX_DEPTH == 64
IB_NONE == 0
IB_SEC == 1
IB_USE == 2
IB_ID == 3

NO_ALIGN_COMMENT == <<";", " ", "N", "O", "A", "L", "I", "G", "N", "\n">>

(***************************************************************************)
(* Characters.  Ascii lists the printable characters from code 32 on, so   *)
(* that the character at position k has code 31 + k.                       *)
(***************************************************************************)
\* The character 0x60, which a TLA+ string cannot hold.
Backtick == "BACKTICK"

Ascii ==
    << " ", "!", "\"", "#", "$", "%", "&", "'", "(", ")", "*", "+", ",", "-",
       ".", "/", "0", "1", "2", "3", "4", "5", "6", "7", "8", "9", ":", ";",
       "<", "=", ">", "?", "@", "A", "B", "C", "D", "E", "F", "G", "H", "I",
       "J", "K", "L", "M", "N", "O", "P", "Q", "R", "S", "T", "U", "V", "W",
       "X", "Y", "Z", "[", "\\", "]", "^", "_", Backtick, "a", "b", "c", "d", "e",
       "f", "g", "h", "i", "j", "k", "l", "m", "n", "o", "p", "q", "r", "s",
       "t", "u", "v", "w", "x", "y", "z", "{", "|", "}", "~" >>

Chars == {Ascii[k] : k \in 1..Len(Ascii)} \cup {"\t", "\n"}

\* The value of a char.
Ord ==
    [ch \in Chars |->
        IF ch = "\t" THEN 9
        ELSE IF ch = "\n" THEN 10
        ELSE 31 + (CHOOSE k \in 1..Len(Ascii) : Ascii[k] = ch)]

\* line[i] of the code as a character; "" stands for the NUL after the end.
At(line, i) == IF i >= 0 /\ i < Len(line) THEN line[i + 1] ELSE ""

\* line[i] of the code as a number.
Code(line, i) == IF i >= 0 /\ i < Len(line) THEN Ord[line[i + 1]] ELSE 0

\* The pointer line + start, as the string that starts there.
From(line, start) == SubSeq(line, start + 1, Len(line))

\* The len characters from line + start on (printf's %.*s, strncpy).
Sub(line, start, len) == SubSeq(line, start + 1, start + len)

RECURSIVE strncmpFrom(_, _, _, _)
strncmpFrom(s1, s2, k, n) ==
    IF k >= n THEN 0
    ELSE IF Code(s1, k) # Code(s2, k) THEN Code(s1, k) - Code(s2, k)
    ELSE IF Code(s1, k) = 0 THEN 0
    ELSE strncmpFrom(s1, s2, k + 1, n)

\* strncmp of the C library: at most n characters, stopping at a NUL.
strncmp(s1, s2, n) == strncmpFrom(s1, s2, 0, n)

(***************************************************************************)
(* Indentation rules.                                                      *)
(***************************************************************************)
IR_DEFAULT == {}
IR_SPECIAL == {"SPECIAL"}
IR_WRAPPER == {"WRAPPER"}
IR_UNIFORM == {"UNIFORM"}

INDENT_RULES ==
    << [name |-> <<"S", "I", "C", "P">>, rules |-> IR_WRAPPER],
       [name |-> <<"b", "e", "g", "i", "n">>,
        rules |-> IR_SPECIAL \cup IR_UNIFORM],
       [name |-> <<"c", "o", "n", "d">>, rules |-> IR_SPECIAL \cup IR_UNIFORM],
       [name |-> <<"l", "i", "b", "r", "a", "r", "y">>,
        rules |-> IR_SPECIAL \cup IR_WRAPPER],
       [name |-> <<"C", "h", "a", "p", "t", "e", "r">>, rules |-> IR_SPECIAL],
       [name |-> <<"E", "x", "e", "r", "c", "i", "s", "e">>,
        rules |-> IR_SPECIAL],
       [name |-> <<"S", "e", "c", "t", "i", "o", "n">>, rules |-> IR_SPECIAL],
       [name |-> <<"c", "a", "s", "e">>, rules |-> IR_SPECIAL],
       [name |-> <<"d", "e", "f", "i", "n", "e">>, rules |-> IR_SPECIAL],
       [name |-> <<"d", "e", "f", "i", "n", "e", "-", "r", "e", "c", "o", "r",
                   "d", "-", "t", "y", "p", "e">>, rules |-> IR_SPECIAL],
       [name |-> <<"d", "e", "f", "i", "n", "e", "-", "s", "y", "n", "t", "a",
                   "x">>, rules |-> IR_SPECIAL],
       [name |-> <<"l", "a", "m", "b", "d", "a">>, rules |-> IR_SPECIAL],
       [name |-> <<"l", "e", "t">>, rules |-> IR_SPECIAL],
       [name |-> <<"l", "e", "t", "*">>, rules |-> IR_SPECIAL],
       [name |-> <<"l", "e", "t", "-", "s", "y", "n", "t", "a", "x">>,
        rules |-> IR_SPECIAL],
       [name |-> <<"l", "e", "t", "-", "v", "a", "l", "u", "e", "s">>,
        rules |-> IR_SPECIAL],
       [name |-> <<"l", "e", "t", "r", "e", "c">>, rules |-> IR_SPECIAL],
       [name |-> <<"p", "a", "r", "a", "m", "e", "t", "e", "r", "i", "z",
                   "e">>, rules |-> IR_SPECIAL],
       [name |-> <<"s", "y", "n", "t", "a", "x", "-", "c", "a", "s", "e">>,
        rules |-> IR_SPECIAL],
       [name |-> <<"s", "y", "n", "t", "a", "x", "-", "r", "u", "l", "e",
                   "s">>, rules |-> IR_SPECIAL],
       [name |-> <<"u", "n", "l", "e", "s", "s">>, rules |-> IR_SPECIAL],
       [name |-> <<"w", "h", "e", "n">>, rules |-> IR_SPECIAL],
       [name |-> <<"w", "i", "t", "h", "-", "m", "u", "t", "e", "x">>,
        rules |-> IR_SPECIAL],
       [name |-> <<"w", "i", "t", "h", "-", "s", "y", "n", "t", "a", "x">>,
        rules |-> IR_SPECIAL] >>

RECURSIVE lookupFrom(_, _, _, _)
lookupFrom(line, start, len, k) ==
    IF k > Len(INDENT_RULES) THEN IR_DEFAULT
    ELSE IF strncmp(From(line, start), INDENT_RULES[k].name, len) = 0
         THEN IF start # 1
              THEN INDENT_RULES[k].rules \ IR_WRAPPER
              ELSE INDENT_RULES[k].rules
         ELSE lookupFrom(line, start, len, k + 1)

\* Looks up the indentation rules for the given operator.
lookup_indent_rules(line, start, len) == lookupFrom(line, start, len, 1)

\* Looks up the import block for the given operator.  Never returns IB_ID.
lookup_import_block(line, start, len) ==
    LET s == From(line, start) IN
    IF start = 1
       /\ (\/ strncmp(s, <<"C", "h", "a", "p", "t", "e", "r">>, len) = 0
           \/ strncmp(s, <<"S", "e", "c", "t", "i", "o", "n">>, len) = 0
           \/ strncmp(s, <<"E", "x", "e", "r", "c", "i", "s", "e">>, len) = 0)
    THEN IB_SEC
    ELSE IF start = 3 /\ strncmp(s, <<"u", "s", "e">>, len) = 0
    THEN IB_USE
    ELSE IB_NONE

\* The loop of correct_id_order from index i = j on, with the remembered cmp.
RECURSIVE idOrderFrom(_, _, _, _, _, _)
idOrderFrom(prev, line, start, len, i, cmp) ==
    IF Code(prev, i) # 0 /\ i < len
    THEN LET ci == Code(prev, i)
             cj == Code(line, start + i)
             dot == Ord["."]
         IN  IF i = 0 /\ ci # cj THEN ci < cj
             ELSE IF ci = dot /\ cj = dot
                  THEN IF cmp # 0 THEN cmp < 0
                       ELSE idOrderFrom(prev, line, start, len, i + 1, 0)
             ELSE IF ci = dot THEN FALSE
             ELSE IF cj = dot THEN TRUE
             ELSE idOrderFrom(prev, line, start, len, i + 1,
                              IF cmp = 0 THEN ci - cj ELSE cmp)
    ELSE LET ei == Code(prev, i) = 0
             ej == i = len
             dot == Ord["."]
             ci == IF ei THEN dot ELSE Code(prev, i)
             cj == IF ej THEN dot ELSE Code(line, start + i)
         IN  IF ci = dot /\ cj = dot /\ cmp # 0 THEN cmp < 0 ELSE ei

\* TRUE if the ids prev and current (a substring of line) are in order.
correct_id_order(prev, line, start, len) ==
    idOrderFrom(prev, line, start, len, 0, 0)

\* TRUE if the import names prev and current are in order.
correct_name_order(prev, line, start, len) ==
    strncmp(prev, From(line, start), len) < 0

(***************************************************************************)
(* Linter state for a single file (struct State), and the locals of        *)
(* lint_line that live across the characters of one line.                  *)
(***************************************************************************)
\* A uint8_t: what a store into stack[] keeps of an int.
U8(x) == x % 256

\* The State built with the flags of a file that ended inside a string with
\* a diagnostic printed.
NewState_Dirty(filename) ==
    [filename |-> filename,
     lineno |-> 1,
     status |-> 1,
     prev_blanks |-> 0,
     in_string |-> TRUE,
     num_wrappers |-> 0,
     quoted_align |-> 0,
     depth |-> 0,
     stack |-> [k \in 0..(MAX_DEPTH - 1) |-> 0],
     import_mode |-> IB_NONE,
     last_import_id |-> <<>>,
     last_import_name |-> <<>>]

\* The State that lint builds for a file that it could open.
NewState(filename) ==
    [filename |-> filename,
     lineno |-> 1,
     status |-> 0,
     prev_blanks |-> 0,
     in_string |-> FALSE,
     num_wrappers |-> 0,
     quoted_align |-> 0,
     depth |-> 0,
     stack |-> [k \in 0..(MAX_DEPTH - 1) |-> 0],
     import_mode |-> IB_NONE,
     last_import_id |-> <<>>,
     last_import_name |-> <<>>]

\* lint_line at its entry: nothing printed, nothing gone wrong.
\*   out    the diagnostics printed for this line, in order
\*   ret    lint_line has returned
\*   abort  an assertion failed
\*   fault  a store outside an array happened: behaviour is undefined from here
Enter(state) ==
    [st |-> state, out |-> <<>>, ret |-> FALSE, abort |-> FALSE,
     fault |-> FALSE, mode |-> IF state.in_string THEN "STRING" ELSE "INDENT",
     prev |-> "", escaped |-> FALSE, two_spaces |-> FALSE, word_start |-> 0]

\* The diagnostic with the column printed as it is stored, without the + 1.
Diag_ZeroBasedColumn(st, column, msg, n1, n2, s1, s2) ==
    [file |-> st.filename, line |-> st.lineno, col |-> column,
     msg |-> msg, n1 |-> n1, n2 |-> n2, s1 |-> s1, s2 |-> s2]

\* One printed diagnostic: <filename>:<line>:<column>: <message>, with the
\* format string as msg and its arguments (numbers n1, n2; strings s1, s2).
Diag(st, column, msg, n1, n2, s1, s2) ==
    [file |-> st.filename, line |-> st.lineno, col |-> column + 1,
     msg |-> msg, n1 |-> n1, n2 |-> n2, s1 |-> s1, s2 |-> s2]

\* fail without its last statement but one, state->status = 1.
failWith_StatusNotSet(sc, column, msg, n1, n2, s1, s2) ==
    [sc EXCEPT !.out = Append(@, Diag(sc.st, column, msg, n1, n2, s1, s2))]

\* fail that ends the scan of the line with the first diagnostic.
failWith_FailFast(sc, column, msg, n1, n2, s1, s2) ==
    [sc EXCEPT !.out = Append(@, Diag(sc.st, column, msg, n1, n2, s1, s2)),
               !.st.status = 1,
               !.ret = TRUE]

\* Emits a failure message for the current line given a zero-based column.
failWith(sc, column, msg, n1, n2, s1, s2) ==
    [sc EXCEPT !.out = Append(@, Diag(sc.st, column, msg, n1, n2, s1, s2)),
               !.st.status = 1]

fail(sc, column, msg) == failWith(sc, column, msg, 0, 0, <<>>, <<>>)

(***************************************************************************)
(* lint_line, step 1: basic line length, whitespace and comments.          *)
(***************************************************************************)
\* The blank line with prev_blanks >= 1 as its test.
BlankLine_EveryExcess(sc) ==
    LET a == IF ~sc.st.in_string /\ sc.st.prev_blanks >= 1
             THEN fail(sc, 0, "multiple blank lines")
             ELSE sc
    IN  [a EXCEPT !.st.prev_blanks = @ + 1, !.ret = TRUE]

\* The blank line without the test for in_string.
BlankLine_AlsoInString(sc) ==
    LET a == IF sc.st.prev_blanks = 1
             THEN fail(sc, 0, "multiple blank lines")
             ELSE sc
    IN  [a EXCEPT !.st.prev_blanks = @ + 1, !.ret = TRUE]

\* The blank line: line_len = 1.
BlankLine(sc) ==
    LET a == IF ~sc.st.in_string /\ sc.st.prev_blanks = 1
             THEN fail(sc, 0, "multiple blank lines")
             ELSE sc
    IN  [a EXCEPT !.st.prev_blanks = @ + 1, !.ret = TRUE]

LineTooLong(sc, line_len) ==
    IF line_len - 1 > MAX_COLUMNS
    THEN failWith(sc, MAX_COLUMNS - 1, "line too long: %d > %d",
                  line_len, MAX_COLUMNS, <<>>, <<>>)
    ELSE sc

\* The test for a space before the terminator, skipped inside strings.
TrailingWhitespace_NotInString(sc, line, line_len) ==
    IF At(line, line_len - 2) = " " /\ ~sc.st.in_string
    THEN fail(sc, line_len - 2, "trailing whitespace")
    ELSE sc

TrailingWhitespace(sc, line, line_len) ==
    IF At(line, line_len - 2) = " "
    THEN fail(sc, line_len - 2, "trailing whitespace")
    ELSE sc

\* for (i = 1; line[i] == ';'; i++);
RECURSIVE SemicolonRun(_, _)
SemicolonRun(line, i) ==
    IF At(line, i) = ";" THEN SemicolonRun(line, i + 1) ELSE i

\* The comment line without the test of the line number.
CommentLine_AnyLine(sc, line) ==
    LET i == SemicolonRun(line, 1)
        a == IF i > 3 THEN fail(sc, 0, "too many semicolons")
             ELSE sc
        b == IF At(line, i) # "\n" /\ At(line, i) # " "
             THEN fail(a, i, "missing space after ';'")
             ELSE a
    IN  [b EXCEPT !.ret = TRUE]

\* The line whose first character is ';', taken to end an open string.
CommentLine_LeavesString(sc, line) ==
    LET i == SemicolonRun(line, 1)
        a == IF i > 3 THEN fail(sc, 0, "too many semicolons")
             ELSE IF i = 3 /\ sc.st.lineno # 1
             THEN fail(sc, 0, "';;;' only allowed on first line copyright")
             ELSE sc
        b == IF At(line, i) # "\n" /\ At(line, i) # " "
             THEN fail(a, i, "missing space after ';'")
             ELSE a
    IN  [b EXCEPT !.ret = TRUE, !.st.in_string = FALSE]

\* The line whose first character is ';'.
CommentLine(sc, line) ==
    LET i == SemicolonRun(line, 1)
        a == IF i > 3 THEN fail(sc, 0, "too many semicolons")
             ELSE IF i = 3 /\ sc.st.lineno # 1
             THEN fail(sc, 0, "';;;' only allowed on first line copyright")
             ELSE sc
        b == IF At(line, i) # "\n" /\ At(line, i) # " "
             THEN fail(a, i, "missing space after ';'")
             ELSE a
    IN  [b EXCEPT !.ret = TRUE]

(***************************************************************************)
(* lint_line, step 2: spacing, alignment and import ordering, character by *)
(* character.                                                              *)
(***************************************************************************)
NoAlign(line, line_len) ==
    LET na_len == Len(NO_ALIGN_COMMENT) IN
    /\ line_len >= na_len
    /\ strncmp(From(line, line_len - na_len), NO_ALIGN_COMMENT, na_len) = 0

\* The test for a tab at the head of the loop over the characters.
IllegalCharacter(sc, c, i) ==
    IF c = "\t" THEN fail(sc, i, "illegal character '\\t'") ELSE sc

\* case INDENT, at the first character that is not a space.
IndentCheck(sc, i, no_align) ==
    LET st == sc.st
        a == IF ~no_align /\ i # st.stack[st.depth]
             THEN IF i = 0 /\ st.depth = st.num_wrappers
                  THEN [sc EXCEPT !.st.stack[st.depth] = 0]
                  ELSE IF i = st.quoted_align
                  THEN [sc EXCEPT !.st.stack[st.depth] = U8(st.quoted_align),
                                  !.st.quoted_align = -1]
                  ELSE fail(sc, i, "incorrect indentation")
             ELSE sc
    IN  [a EXCEPT !.mode = "NORMAL"]

\* The test for two spaces in a row without its exception for ';'.
TwoSpaces_AlsoBeforeComment(sc, c, i) ==
    IF sc.two_spaces /\ c # " "
    THEN fail([sc EXCEPT !.two_spaces = FALSE], i,
              "unexpected two spaces in a row")
    ELSE sc

\* if (two_spaces && c != ' ' && c != ';'), in NORMAL and OPERATOR mode.
TwoSpaces(sc, c, i) ==
    IF sc.two_spaces /\ c # " " /\ c # ";"
    THEN fail([sc EXCEPT !.two_spaces = FALSE], i,
              "unexpected two spaces in a row")
    ELSE sc

\* case '"'
OpenString(sc) == [sc EXCEPT !.mode = "STRING", !.st.in_string = TRUE]

\* case ';'
OpenComment(sc, i) ==
    LET a == [sc EXCEPT !.mode = "COMMENT"] IN
    IF sc.prev # " " THEN fail(a, i, "expected space before ';'") ELSE a

\* case '(' and '[', with the space as the only character allowed before
\* the delimiter.
OpenParen_SpaceOnly(sc, i) ==
    LET depth == sc.st.depth + 1 IN
    IF depth < 0 \/ depth >= MAX_DEPTH
    THEN [sc EXCEPT !.mode = "OPERATOR", !.st.depth = depth, !.fault = TRUE]
    ELSE
    LET a == [sc EXCEPT !.mode = "OPERATOR", !.st.depth = depth,
                        !.st.stack[depth] = U8(i + 1)]
        b == IF i > 0 /\ sc.prev # " "
             THEN fail(a, i, "expected space before '('")
             ELSE a
    IN  IF sc.prev = "'"
           \/ (sc.st.quoted_align # -1 /\ (sc.prev = "(" \/ sc.prev = "["))
        THEN [b EXCEPT !.st.quoted_align = i + 1]
        ELSE [b EXCEPT !.st.quoted_align = -1]

\* case '(' and '[', where only a quote mark before the delimiter sets
\* quoted_align.
OpenParen_QuoteOnly(sc, i) ==
    LET depth == sc.st.depth + 1 IN
    IF depth < 0 \/ depth >= MAX_DEPTH
    THEN [sc EXCEPT !.mode = "OPERATOR", !.st.depth = depth, !.fault = TRUE]
    ELSE
    LET a == [sc EXCEPT !.mode = "OPERATOR", !.st.depth = depth,
                        !.st.stack[depth] = U8(i + 1)]
        b == IF i > 0 /\ sc.prev \notin {" ", "#", "'", "(", ",", "@", "[",
                                        Backtick}
             THEN fail(a, i, "expected space before '('")
             ELSE a
    IN  IF sc.prev = "'"
        THEN [b EXCEPT !.st.quoted_align = i + 1]
        ELSE [b EXCEPT !.st.quoted_align = -1]

\* case '(' and '['
OpenParen(sc, i) ==
    LET depth == sc.st.depth + 1 IN
    IF depth < 0 \/ depth >= MAX_DEPTH
    THEN [sc EXCEPT !.mode = "OPERATOR", !.st.depth = depth, !.fault = TRUE]
    ELSE
    LET a == [sc EXCEPT !.mode = "OPERATOR", !.st.depth = depth,
                        !.st.stack[depth] = U8(i + 1)]
        b == IF i > 0 /\ sc.prev \notin {" ", "#", "'", "(", ",", "@", "[",
                                        Backtick}
             THEN fail(a, i, "expected space before '('")
             ELSE a
    IN  IF sc.prev = "'"
           \/ (sc.st.quoted_align # -1 /\ (sc.prev = "(" \/ sc.prev = "["))
        THEN [b EXCEPT !.st.quoted_align = i + 1]
        ELSE [b EXCEPT !.st.quoted_align = -1]

\* The name that ends at column i in an IB_ID block.
ImportName(sc, line, i, store) ==
    LET start == sc.word_start
        len == i - start
        a == IF ~correct_name_order(sc.st.last_import_name, line, start, len)
             THEN failWith(sc, start,
                           "incorrect import name ordering: %s > %.*s", 0, 0,
                           sc.st.last_import_name, Sub(line, start, len))
             ELSE sc
    IN  IF ~store THEN [a EXCEPT !.st.last_import_name = <<>>]
        ELSE IF len >= MAX_COLUMNS THEN [a EXCEPT !.fault = TRUE]
        ELSE [a EXCEPT !.st.last_import_name = Sub(line, start, len)]

\* case ')' and ']', with num_wrappers counted down when the form that is
\* closed is at the depth of the wrappers.
CloseParen_CountsDown(sc, line, i) ==
    LET a == [sc EXCEPT !.mode = "NORMAL"]
        b == IF i # 0 /\ a.st.depth = a.st.num_wrappers
             THEN fail(a, i, "expected ')' at start of line for wrapper")
             ELSE a
        c == IF sc.prev = " "
             THEN fail(b, i, "unexpected space before ')'")
             ELSE b
        d == [c EXCEPT !.st.depth = @ - 1,
                       !.st.num_wrappers =
                           IF @ > 0 /\ @ = c.st.depth THEN @ - 1 ELSE @]
    IN  IF d.st.import_mode # IB_NONE
        THEN LET e == IF d.st.import_mode = IB_ID
                      THEN ImportName(d, line, i, FALSE)
                      ELSE IF d.st.import_mode = IB_USE
                      THEN [d EXCEPT !.st.last_import_id = <<>>]
                      ELSE d
             IN  [e EXCEPT !.st.import_mode = @ - 1]
        ELSE d

\* case ')' and ']', with the last id kept when the use block is left.
CloseParen_KeepsLastId(sc, line, i) ==
    LET a == [sc EXCEPT !.mode = "NORMAL"]
        b == IF i # 0 /\ a.st.depth = a.st.num_wrappers
             THEN fail(a, i, "expected ')' at start of line for wrapper")
             ELSE a
        c == IF sc.prev = " "
             THEN fail(b, i, "unexpected space before ')'")
             ELSE b
        d == [c EXCEPT !.st.depth = @ - 1]
    IN  IF d.st.import_mode # IB_NONE
        THEN LET e == IF d.st.import_mode = IB_ID
                      THEN ImportName(d, line, i, FALSE)
                      ELSE d
             IN  [e EXCEPT !.st.import_mode = @ - 1]
        ELSE d

\* case ')' and ']'
CloseParen(sc, line, i) ==
    LET a == [sc EXCEPT !.mode = "NORMAL"]
        b == IF i # 0 /\ a.st.depth = a.st.num_wrappers
             THEN fail(a, i, "expected ')' at start of line for wrapper")
             ELSE a
        c == IF sc.prev = " "
             THEN fail(b, i, "unexpected space before ')'")
             ELSE b
        d == [c EXCEPT !.st.depth = @ - 1]
    IN  IF d.st.import_mode # IB_NONE
        THEN LET e == IF d.st.import_mode = IB_ID
                      THEN ImportName(d, line, i, FALSE)
                      ELSE IF d.st.import_mode = IB_USE
                      THEN [d EXCEPT !.st.last_import_id = <<>>]
                      ELSE d
             IN  [e EXCEPT !.st.import_mode = @ - 1]
        ELSE d

\* The expected column of the form whose operator was just read.
OperatorColumn(st, rules, c, i) ==
    IF c = " "
    THEN IF "SPECIAL" \in rules /\ "UNIFORM" \notin rules
         THEN U8(st.stack[st.depth] + 1)
         ELSE U8(i + 1)
    ELSE IF "SPECIAL" \in rules
         THEN U8(st.stack[st.depth] + 1)
         ELSE st.stack[st.depth]

\* switch (state->import_mode), where an id that was reported does not
\* become the last id.
ImportOperator_KeepsLastOnFail(sc, line, start, len) ==
    LET block == lookup_import_block(line, start, len)
        m == sc.st.import_mode
    IN  IF m = IB_NONE
        THEN IF block = IB_SEC THEN [sc EXCEPT !.st.import_mode = @ + 1]
             ELSE sc
        ELSE IF m = IB_SEC
        THEN IF block = IB_USE THEN [sc EXCEPT !.st.import_mode = @ + 1]
             ELSE sc
        ELSE IF m = IB_USE
        THEN LET a == [sc EXCEPT !.st.import_mode = @ + 1]
             IN  IF ~correct_id_order(sc.st.last_import_id, line, start, len)
                 THEN failWith(a, start,
                               "incorrect import id ordering: %s > %.*s",
                               0, 0, sc.st.last_import_id,
                               Sub(line, start, len))
                 ELSE IF len >= MAX_COLUMNS THEN [a EXCEPT !.fault = TRUE]
                 ELSE [a EXCEPT !.st.last_import_id = Sub(line, start, len)]
        ELSE sc

\* switch (state->import_mode), once the operator was read.
ImportOperator(sc, line, start, len) ==
    LET block == lookup_import_block(line, start, len)
        m == sc.st.import_mode
    IN  IF m = IB_NONE
        THEN IF block = IB_SEC THEN [sc EXCEPT !.st.import_mode = @ + 1]
             ELSE sc
        ELSE IF m = IB_SEC
        THEN IF block = IB_USE THEN [sc EXCEPT !.st.import_mode = @ + 1]
             ELSE sc
        ELSE IF m = IB_USE
        THEN LET a == [sc EXCEPT !.st.import_mode = @ + 1]
                 b == IF ~correct_id_order(sc.st.last_import_id, line, start,
                                           len)
                      THEN failWith(a, start,
                                    "incorrect import id ordering: %s > %.*s",
                                    0, 0, sc.st.last_import_id,
                                    Sub(line, start, len))
                      ELSE a
             IN  IF len >= MAX_COLUMNS THEN [b EXCEPT !.fault = TRUE]
                 ELSE [b EXCEPT !.st.last_import_id = Sub(line, start, len)]
        ELSE sc

\* if (mode == OPERATOR), at the space or newline that ends the operator.
Operator(sc, line, c, i) ==
    LET st == sc.st
        start == st.stack[st.depth]
        len == i - start
        rules == lookup_indent_rules(line, start, len)
        a == [sc EXCEPT !.mode = "NORMAL",
                        !.st.num_wrappers =
                            IF "WRAPPER" \in rules THEN @ + 1 ELSE @,
                        !.st.stack[st.depth] = OperatorColumn(st, rules, c, i)]
    IN  ImportOperator(a, line, start, len)

\* case ' ' and '\n'
Separator(sc, line, c, i) ==
    LET a == IF c = " " /\ sc.prev = " " THEN [sc EXCEPT !.two_spaces = TRUE]
             ELSE sc
    IN  IF a.mode = "OPERATOR" THEN Operator(a, line, c, i)
        ELSE IF a.st.import_mode = IB_ID THEN ImportName(a, line, i, TRUE)
        ELSE a

\* case NORMAL and OPERATOR
NormalChar(sc, line, c, i) ==
    LET a == TwoSpaces(sc, c, i) IN
    IF c = "\"" THEN OpenString(a)
    ELSE IF c = ";" THEN OpenComment(a, i)
    ELSE IF c = "(" \/ c = "[" THEN OpenParen(a, i)
    ELSE IF c = ")" \/ c = "]" THEN CloseParen(a, line, i)
    ELSE IF c = " " \/ c = "\n" THEN Separator(a, line, c, i)
    ELSE a

\* case STRING
StringChar(sc, c) ==
    IF ~sc.escaped /\ c = "\""
    THEN [sc EXCEPT !.mode = "NORMAL", !.st.in_string = FALSE]
    ELSE sc

\* case COMMENT_SPACE and case COMMENT without their return.
CommentSpace_KeepsScanning(sc, c, i) ==
    IF c # " " THEN fail(sc, i, "expected space after ';'") ELSE sc

\* case COMMENT_SPACE, and case COMMENT after its test for a second ';'
CommentSpace(sc, c, i) ==
    LET a == IF c # " " THEN fail(sc, i, "expected space after ';'") ELSE sc
    IN  [a EXCEPT !.ret = TRUE]

\* The end of the loop body: word_start, prev and escaped.
EndOfChar(sc, c, i) ==
    [sc EXCEPT !.word_start =
                   IF sc.mode = "NORMAL" /\ sc.prev = " " /\ c # " "
                   THEN i ELSE @,
               !.prev = c,
               !.escaped = IF c = "\\" THEN ~sc.escaped ELSE FALSE]

\* The body of the loop over the characters, for the character at column i.
Char(sc, line, i, no_align) ==
    LET c == At(line, i)
        a == IllegalCharacter(sc, c, i)
        b == IF a.mode = "INDENT"
             THEN IF c = " " THEN a
                  ELSE NormalChar(IndentCheck(a, i, no_align), line, c, i)
             ELSE IF a.mode \in {"NORMAL", "OPERATOR"}
             THEN NormalChar(a, line, c, i)
             ELSE IF a.mode = "STRING" THEN StringChar(a, c)
             ELSE IF a.mode = "COMMENT" /\ c = ";"
             THEN [a EXCEPT !.mode = "COMMENT_SPACE"]
             ELSE CommentSpace(a, c, i)
    IN  IF b.ret \/ b.fault THEN b ELSE EndOfChar(b, c, i)

\* for (int i = lo; i < hi; i++), left once lint_line has returned.  The
\* columns are taken in order; the range is halved only to keep the
\* evaluation shallow on long lines.
RECURSIVE Chars_loop(_, _, _, _, _)
Chars_loop(sc, line, lo, hi, no_align) ==
    IF lo >= hi \/ sc.ret \/ sc.fault THEN sc
    ELSE IF hi = lo + 1 THEN Char(sc, line, lo, no_align)
    ELSE LET mid == (lo + hi) \div 2
             left == Chars_loop(sc, line, lo, mid, no_align)
         IN  Chars_loop(left, line, mid, hi, no_align)

\* Lints the given line, which must be nonempty and end with a newline.
lint_line(state, line) ==
    LET line_len == Len(line)
        sc == Enter(state)
    IN  IF ~(/\ line_len > 0
             /\ line[line_len] = "\n"
             /\ state.depth >= 0
             /\ state.depth < MAX_DEPTH)
        THEN [sc EXCEPT !.abort = TRUE]
        ELSE IF line_len = 1 THEN BlankLine(sc)
        ELSE LET a == [sc EXCEPT !.st.prev_blanks = 0]
                 b == LineTooLong(a, line_len)
                 c == TrailingWhitespace(b, line, line_len)
             IN  IF At(line, 0) = ";" THEN CommentLine(c, line)
                 ELSE Chars_loop(c, line, 0, line_len,
                                 NoAlign(line, line_len))

(***************************************************************************)
(* The process: main calls lint on each argument in turn; lint opens the   *)
(* file and hands every line that getline delivers to lint_line.           *)
(***************************************************************************)
VARIABLES
    argv,       \* the file arguments: "ok" can be opened, "missing" cannot
    i,          \* main's loop index: argv[i] is the next file
    status,     \* main's status
    pc,         \* where the process is
    state,      \* lint's struct State, while a file is open
    line,       \* the line getline delivered last, while it is being linted
    exit_code,  \* how the process ended, -1 while it runs
    pre,        \* history: state as it was when lint_line was entered
    out,        \* history: what lint_line printed for line
    run,        \* history: the number of blank lines in a row up to line
    nread,      \* history: the number of lines getline delivered for the file
    order,      \* history: the arguments lint was called with, in order
    unopened,   \* history: the arguments that could not be opened
    diagnosed,  \* history: the arguments a diagnostic was printed for
    left        \* history: how the file before this one was left open

vars == <<argv, i, status, pc, state, line, exit_code, pre, out, run, nread,
          order, unopened, diagnosed, left>>

\* What a State says about forms and strings that are open.
Open(st) ==
    [in_string |-> st.in_string, depth |-> st.depth,
     num_wrappers |-> st.num_wrappers, import_mode |-> st.import_mode]

\* No State: lint is not running.
NoState == <<>>

\* status |= s, for values that are 0 or 1
BitOr(a, b) == IF a = 1 \/ b = 1 THEN 1 ELSE 0

RECURSIVE SeqsUpTo(_, _)
SeqsUpTo(S, n) ==
    IF n = 0 THEN {<<>>}
    ELSE LET shorter == SeqsUpTo(S, n - 1)
         IN  shorter \cup {Append(q, x) : q \in shorter, x \in S}

\* main is entered with the given arguments.
Start(args) ==
    /\ argv = args
    /\ i = 1
    /\ status = 0
    /\ pc = "main"
    /\ state = NoState
    /\ line = <<>>
    /\ exit_code = -1
    /\ pre = NoState
    /\ out = <<>>
    /\ run = 0
    /\ nread = 0
    /\ order = <<>>
    /\ unopened = {}
    /\ diagnosed = {}
    /\ left = Open(NewState(0))

Init == \E args \in SeqsUpTo({"ok", "missing"}, MaxFiles) : Start(args)

\* One file, which can be opened.
InitOne == Start(<<"ok">>)

\* main, argc == 1: prints the usage and returns 0.
Usage ==
    /\ pc = "main"
    /\ Len(argv) = 0
    /\ pc' = "exited"
    /\ exit_code' = 0
    /\ UNCHANGED left
    /\ UNCHANGED <<argv, i, status, state, line, pre, out, run, nread, order,
                   unopened, diagnosed>>

\* lint, when fopen fails: perror, return 1; main: status |= 1, i++.
LintOpenFail ==
    /\ pc = "main"
    /\ i <= Len(argv)
    /\ argv[i] = "missing"
    /\ status' = BitOr(status, 1)
    /\ i' = i + 1
    /\ order' = Append(order, i)
    /\ unopened' = unopened \cup {i}
    /\ UNCHANGED left
    /\ UNCHANGED <<argv, pc, state, line, exit_code, pre, out, run, nread,
                   diagnosed>>

\* lint, when fopen succeeds: a fresh State.
LintOpen ==
    /\ pc = "main"
    /\ i <= Len(argv)
    /\ argv[i] = "ok"
    /\ state' = NewState(i)
    /\ pc' = "getline"
    /\ order' = Append(order, i)
    /\ run' = 0
    /\ nread' = 0
    /\ UNCHANGED left
    /\ UNCHANGED <<argv, i, status, line, exit_code, pre, out, unopened,
                   diagnosed>>

\* getline delivers a line of the file, one of L.
GetLine(L) ==
    /\ pc = "getline"
    /\ state.lineno <= MaxLines
    /\ \E l \in L : line' = l
    /\ pc' = "lint_line"
    /\ nread' = nread + 1
    /\ UNCHANGED left
    /\ UNCHANGED <<argv, i, status, state, exit_code, pre, out, run, order,
                   unopened, diagnosed>>

\* getline returns -1: lint returns state.status; main: status |= it, i++.
EndOfFile ==
    /\ pc = "getline"
    /\ status' = BitOr(status, state.status)
    /\ i' = i + 1
    /\ state' = NoState
    /\ pc' = "main"
    /\ left' = Open(state)
    /\ UNCHANGED <<argv, line, exit_code, pre, out, run, nread, order,
                   unopened, diagnosed>>

\* The exit codes of a process after undefined behaviour: it may go on and
\* return either status, or be killed (SIGABRT, SIGSEGV).
UndefinedExits == {0, 1, 134, 139}

\* lint_line(&state, line, len).  A failed assertion aborts the process.
LintLine ==
    /\ pc = "lint_line"
    /\ LET r == lint_line(state, line) IN
       /\ pc' = IF r.abort THEN "aborted"
                ELSE IF r.fault THEN "undefined" ELSE "scanned"
       /\ exit_code' \in IF r.abort THEN {134}
                         ELSE IF r.fault THEN UndefinedExits ELSE {exit_code}
       /\ state' = r.st
       /\ out' = r.out
       /\ diagnosed' = IF r.out # <<>> THEN diagnosed \cup {i} ELSE diagnosed
    /\ pre' = state
    /\ run' = IF line = <<"\n">> THEN run + 1 ELSE 0
    /\ UNCHANGED left
    /\ UNCHANGED <<argv, i, status, line, nread, order, unopened>>

\* state.lineno++, and the next turn of lint's loop.
NextLine ==
    /\ pc = "scanned"
    /\ state' = [state EXCEPT !.lineno = @ + 1]
    /\ pc' = "getline"
    /\ line' = <<>>
    /\ pre' = NoState
    /\ out' = <<>>
    /\ UNCHANGED left
    /\ UNCHANGED <<argv, i, status, exit_code, run, nread, order, unopened,
                   diagnosed>>

\* main returns status.
Exit ==
    /\ pc = "main"
    /\ Len(argv) > 0
    /\ i > Len(argv)
    /\ pc' = "exited"
    /\ exit_code' = status
    /\ UNCHANGED left
    /\ UNCHANGED <<argv, i, status, state, line, pre, out, run, nread, order,
                   unopened, diagnosed>>

(***************************************************************************)
(* Lines.                                                                  *)
(***************************************************************************)
\* n times the character ch
Rep(ch, n) == [k \in 1..n |-> ch]

\* The line with the given text, indented by n spaces.
Indented(n, text) == Rep(" ", n) \o text \o <<"\n">>

\* The lines of the files of Spec: a blank line, code, an opening and a
\* closing delimiter, a comment line with too many markers, a string quote.
Lines ==
    { <<"\n">>,
      <<"a", "\n">>,
      <<"(", "a", "\n">>,
      <<")", "\n">>,
      <<";", ";", ";", ";", " ", "x", "\n">>,
      <<"\"", "\n">> }

Next ==
    \/ Usage
    \/ LintOpenFail
    \/ LintOpen
    \/ GetLine(Lines)
    \/ LintLine
    \/ NextLine
    \/ EndOfFile
    \/ Exit

Spec == Init /\ [][Next]_vars

\* The process for one file that can be opened, with lines from L.
NextOne(L) ==
    \/ LintOpen
    \/ GetLine(L)
    \/ LintLine
    \/ NextLine
    \/ EndOfFile
    \/ Exit

\* Lines of text: lines of 80, 81 and 82 columns; comment lines with one to
\* four markers followed by the terminator, a space or a letter; lines with a
\* tab in the indentation, in code, in a string, after a comment marker, in a
\* comment and on a comment line; a string that goes on in the next line.
TextLines ==
    { <<"\n">>, <<"a", "\n">> }
    \cup {Rep("a", n) \o <<"\n">> : n \in {MAX_COLUMNS, MAX_COLUMNS + 1,
                                          MAX_COLUMNS + 2}}
    \cup {Rep(";", k) \o rest : k \in 1..4,
                                rest \in {<<"\n">>, <<" ", "x", "\n">>,
                                          <<"x", "\n">>}}
    \cup { <<"\t", "a", "\n">>,
           <<"a", "\t", "b", "\n">>,
           <<"\"", "a", "\t", "b", "\"", "\n">>,
           <<"\"", "a", ";", "\t", "b", "\"", "\n">>,
           <<"a", " ", ";", " ", "x", "\t", "y", "\n">>,
           <<"a", " ", ";", "\t", "b", "\n">>,
           <<"a", " ", ";", ";", "\t", "b", "\n">>,
           <<";", "\t", "x", "\n">>,
           <<"\"", "a", "\n">>,
           <<"\t", "b", "\"", "\n">> }

SpecText == InitOne /\ [][NextOne(TextLines)]_vars

\* The operators with the special bit and without the uniform bit that the
\* lines of SpecIndent open forms with.
SpecialOperators == { <<"d", "e", "f", "i", "n", "e">>, <<"l", "e", "t">> }

\* What follows the operator on a line that opens a form.
Operands ==
    { <<>>, <<" ", "x">>, <<" ", "(", "f", " ", "x", ")">> }

\* The line that opens a form with operator op at column k and leaves it
\* open.
OpenLine(k, op, rest) == Indented(k, <<"(">> \o op \o rest)

\* The columns at which the lines of SpecIndent open special forms: two short
\* ones, and the first one for which column + 2 is no 8-bit number.
OpenColumns == {0, 2, 254}

\* Lines for indentation: lines that open a form (default, wrapper, quoted,
\* special), code at the columns 0..MaxIndent with and without the NOALIGN
\* comment, a closing delimiter, and a quoted form at column 255 with a line
\* at its alignment column.
IndentLines ==
    { <<"(", "a", "\n">>,
      <<"(", "a", " ", "b", "\n">>,
      <<"(", "S", "I", "C", "P", " ", "x", "\n">>,
      <<"'", "(", "a", " ", "b", "\n">>,
      <<")", "\n">>,
      Indented(254, <<"'", "(", "a", " ", "b">>),
      Indented(256, <<"x">>) }
    \cup {Indented(k, <<"x">>) : k \in 0..MaxIndent}
    \cup {Indented(k, <<"x", " ">> \o SubSeq(NO_ALIGN_COMMENT, 1, 9)) :
            k \in 0..1}
    \cup {OpenLine(k, op, rest) :
            k \in OpenColumns, op \in SpecialOperators, rest \in Operands}

SpecIndent == InitOne /\ [][NextOne(IndentLines)]_vars

\* The ids of the lines of SpecImport: :1.2, :1.10 and ?1.1.
ImportIds ==
    { <<":", "1", ".", "2">>, <<":", "1", ".", "1", "0">>,
      <<"?", "1", ".", "1">> }

\* A grouped subform with the given id, with the name a or without names.
Subform(id, named) ==
    <<"(">> \o id \o (IF named THEN <<" ", "a">> ELSE <<>>) \o <<")">>

\* The line with a use block of two subforms, at column 2, that also closes
\* the section form around it.
UseLine(id1, named1, id2, named2) ==
    Indented(2, <<"(", "u", "s", "e", " ">> \o Subform(id1, named1)
                \o <<" ">> \o Subform(id2, named2) \o <<")", ")">>)

\* Lines for imports: the line that opens a section form, the use blocks of
\* two subforms, and a line of code.
ImportLines ==
    { <<"(", "E", "x", "e", "r", "c", "i", "s", "e", " ", "?", "1", "\n">>,
      <<"a", "\n">> }
    \cup {UseLine(id1, named1, id2, named2) :
            id1 \in ImportIds, named1 \in BOOLEAN,
            id2 \in ImportIds, named2 \in BOOLEAN}

SpecImport == InitOne /\ [][NextOne(ImportLines)]_vars

(***************************************************************************)
(* Properties.                                                             *)
(***************************************************************************)
\* The positions in the output o of the diagnostics with the given message.
DiagsWith(o, msg) == {k \in 1..Len(o) : o[k].msg = msg}

\* The process has ended, one way or another.
Ended == pc \in {"exited", "aborted", "undefined"}

\* lint is running on a file.
InFile == pc \in {"getline", "lint_line", "scanned"}

\* lint_line has returned for the line in line.
Scanned == pc = "scanned"

\* C1: when the process has ended, lint was called on every argument in
\* argument order, and the exit status is 1 if some file could not be opened
\* or had a diagnostic printed, and 0 otherwise (also for no arguments).
C1_AllFilesAndExitStatus ==
    Ended =>
        /\ order = [k \in 1..Len(argv) |-> k]
        /\ exit_code = IF unopened \cup diagnosed # {} THEN 1 ELSE 0

\* C2 as stated: every blank line outside a string that is the second or a
\* later one of its run gets one 'multiple blank lines' diagnostic.
C2_OnePerExcessBlankLine ==
    (Scanned /\ line = <<"\n">> /\ ~pre.in_string /\ run >= 2) =>
        /\ Len(out) = 1
        /\ out[1].msg = "multiple blank lines"

\* C2, amended: in a run of blank lines outside a string exactly the second
\* blank line gets a 'multiple blank lines' diagnostic, at column 1; the first
\* and the third and later ones get none.
C2_SecondBlankLineOnly ==
    (Scanned /\ line = <<"\n">> /\ ~pre.in_string) =>
        IF run = 2
        THEN /\ Len(out) = 1
             /\ out[1].msg = "multiple blank lines"
             /\ out[1].col = 1
             /\ out[1].line = nread
        ELSE out = <<>>

\* A third blank line in a row, outside a string, was linted.
C2_Witness ==
    Scanned /\ line = <<"\n">> /\ ~pre.in_string /\ run = 3 /\ out = <<>>

\* C4: no assertion of lint_line fails, no store goes out of range, and the
\* paren depth is never negative.
C4_NoAssertionFailure ==
    /\ pc \notin {"aborted", "undefined"}
    /\ InFile => state.depth >= 0

\* C10: while a file is linted its status is 0 or 1, and it is 1 exactly if
\* a diagnostic was printed for the file so far: a line that prints one sets
\* it, and a line that prints none leaves it as it was.
C10_FailedFlag ==
    InFile =>
        /\ state.status = IF i \in diagnosed THEN 1 ELSE 0
        /\ Scanned =>
               state.status = IF pre.status = 1 \/ out # <<>> THEN 1 ELSE 0

\* A line without a diagnostic was linted after the flag had been set.
C10_Witness ==
    Scanned /\ pre.status = 1 /\ out = <<>> /\ state.status = 1

\* C6: a line of n > 80 columns gets exactly one diagnostic 'line too long:
\* n > 80', at displayed column 80, and a line of at most 80 columns none.
C6_LineTooLong ==
    Scanned =>
        LET n == Len(line) - 1
            d == DiagsWith(out, "line too long: %d > %d")
        IN  IF n > MAX_COLUMNS
            THEN /\ Cardinality(d) = 1
                 /\ \A k \in d : /\ out[k].n1 = n
                                 /\ out[k].n2 = MAX_COLUMNS
                                 /\ out[k].col = MAX_COLUMNS
            ELSE d = {}

\* The last column that the loop over the characters looks at, from column k
\* on: the line's last one, or the column at which a comment ends the scan
\* (the one after the ';' or ';;' that starts a comment outside a string).
RECURSIVE ScanStop(_, _, _, _)
ScanStop(text, k, instr, esc) ==
    IF k >= Len(text) THEN Len(text) - 1
    ELSE LET c == At(text, k)
             esc2 == IF c = "\\" THEN ~esc ELSE FALSE
         IN  IF instr
             THEN ScanStop(text, k + 1, ~(~esc /\ c = "\""), esc2)
             ELSE IF c = ";"
             THEN IF At(text, k + 1) = ";" THEN k + 2 ELSE k + 1
             ELSE ScanStop(text, k + 1, c = "\"", esc2)

\* The last column of the line that is scanned, -1 if none is: a blank line
\* and a line that starts with ';' are not scanned at all.
LastScanned(text, instr) ==
    IF Len(text) = 1 \/ text[1] = ";" THEN -1
    ELSE ScanStop(text, 0, instr, FALSE)

\* The diagnostics in out about a tab at column p.
TabDiagsAt(p) ==
    {k \in DiagsWith(out, "illegal character '\\t'") : out[k].col = p + 1}

\* C7: every tab of every line gets an 'illegal character'
\* diagnostic at its position.
C7_EveryTabFlagged ==
    Scanned =>
        \A p \in 0..(Len(line) - 1) : line[p + 1] = "\t" => TabDiagsAt(p) # {}

\* What the code does about tabs: a tab gets exactly one 'illegal character'
\* diagnostic at its position if the scan reaches it, and none otherwise.
\* Tabs on a line that starts with ';' and tabs behind the start of a comment
\* are not flagged; tabs in indentation, code and strings and the tab right
\* after the ';' or ';;' of a comment are.
ScannedTabsFlagged ==
    Scanned =>
        \A p \in 0..(Len(line) - 1) :
            Cardinality(TabDiagsAt(p)) =
                IF line[p + 1] = "\t" /\ p <= LastScanned(line, pre.in_string)
                THEN 1 ELSE 0

\* The number of ';' that the line starts with.
MarkerRun(text) ==
    CHOOSE k \in 0..Len(text) :
        /\ \A j \in 1..k : text[j] = ";"
        /\ k < Len(text) => text[k + 1] # ";"

\* C8: a line that starts with k markers gets 'too many semicolons' iff
\* k > 3, the ';;;' diagnostic iff k = 3 and it is not the first line of the
\* file, and 'missing space' iff the character after the markers is neither a
\* space nor the terminator, each once and nothing else about comments.
C8_CommentMarkers ==
    (Scanned /\ line[1] = ";") =>
        LET k == MarkerRun(line)
            many == DiagsWith(out, "too many semicolons")
            first == DiagsWith(out,
                               "';;;' only allowed on first line copyright")
            space == DiagsWith(out, "missing space after ';'")
        IN  /\ Cardinality(many) = IF k > 3 THEN 1 ELSE 0
            /\ Cardinality(first) = IF k = 3 /\ nread # 1 THEN 1 ELSE 0
            /\ Cardinality(space) =
                   IF line[k + 1] \notin {" ", "\n"} THEN 1 ELSE 0
            /\ \A d \in many \cup first : out[d].col = 1
            /\ \A d \in space : out[d].col = k + 1
            /\ DiagsWith(out, "expected space after ';'") = {}
            /\ DiagsWith(out, "expected space before ';'") = {}

\* A line with three markers that is not the first one got the diagnostic.
C8_Witness ==
    /\ Scanned
    /\ line[1] = ";"
    /\ MarkerRun(line) = 3
    /\ nread = 2
    /\ DiagsWith(out, "';;;' only allowed on first line copyright") # {}

\* The line is scanned from INDENT mode: it is not blank, does not start
\* with ';' and does not start inside a string.
FromIndent == Scanned /\ Len(line) > 1 /\ line[1] # ";" /\ ~pre.in_string

\* The column of the first character of the text that is not a space.
FirstColumn(text) ==
    CHOOSE c \in 0..(Len(text) - 1) :
        /\ text[c + 1] # " "
        /\ \A j \in 1..c : text[j] = " "

\* The text ends with '; NOALIGN' and the terminator.
EndsWithNoAlign(text) ==
    /\ Len(text) >= Len(NO_ALIGN_COMMENT)
    /\ SubSeq(text, Len(text) - Len(NO_ALIGN_COMMENT) + 1, Len(text))
           = NO_ALIGN_COMMENT

\* The text holds no delimiter, so that scanning it neither pushes nor pops.
NoDelimiter(text) ==
    \A j \in 1..Len(text) : text[j] \notin {"(", "[", ")", "]"}

\* C3: a line scanned from INDENT mode with first column c, for the expected
\* column e on top of the stack, gets exactly one 'incorrect indentation'
\* diagnostic, at c, iff c # e and none of the exemptions (a) NOALIGN, (b)
\* c = 0 at the wrapper depth, (c) c = the quoted column holds, and else
\* none.  When c # e, the first exemption that holds decides the effect, seen
\* after a line without delimiters: (b) sets the expected column to 0, (c)
\* sets it to the quoted column and the quoted column to none, (a) and a
\* diagnostic change neither.
C3_IndentationCheck ==
    FromIndent =>
        LET c == FirstColumn(line)
            e == pre.stack[pre.depth]
            a == EndsWithNoAlign(line)
            b == c = 0 /\ pre.depth = pre.num_wrappers
            q == c = pre.quoted_align
            d == DiagsWith(out, "incorrect indentation")
        IN  /\ Cardinality(d) = IF c # e /\ ~a /\ ~b /\ ~q THEN 1 ELSE 0
            /\ \A k \in d : out[k].col = c + 1
            /\ NoDelimiter(line) =>
                   /\ state.depth = pre.depth
                   /\ state.stack[pre.depth] =
                          IF c # e /\ ~a /\ b THEN 0
                          ELSE IF c # e /\ ~a /\ ~b /\ q THEN pre.quoted_align
                          ELSE e
                   /\ state.quoted_align =
                          IF c # e /\ ~a /\ ~b /\ q THEN -1
                          ELSE pre.quoted_align

\* C9: a line that opens a form with an operator that has the special and
\* not the uniform bit, at column k, with or without operands after it, and
\* leaves it open as the innermost form, makes k + 2 the expected column of
\* the next line.
C9_SpecialBodyColumn ==
    FromIndent =>
        \A k \in OpenColumns, op \in SpecialOperators, rest \in Operands :
            line = OpenLine(k, op, rest) =>
                /\ state.depth = pre.depth + 1
                /\ state.stack[state.depth] = k + 2

\* TRUE if id1 and then id2 are in order under the dotted-identifier rule.
InIdOrder(id1, id2) == correct_id_order(id1, id2, 0, Len(id2))

\* C5: in a use block with the sibling subforms of ids id1 and then id2,
\* with or without names, exactly one 'incorrect import id ordering:
\* id1 > id2' is printed if id1 compares greater than id2, and none if not.
C5_SiblingIdOrdering ==
    (FromIndent /\ pre.import_mode = IB_SEC /\ pre.depth = 1) =>
        \A id1 \in ImportIds, named1 \in BOOLEAN,
           id2 \in ImportIds, named2 \in BOOLEAN :
            line = UseLine(id1, named1, id2, named2) =>
                LET d == DiagsWith(out,
                             "incorrect import id ordering: %s > %.*s")
                IN  IF InIdOrder(id1, id2) THEN d = {}
                    ELSE /\ Cardinality(d) = 1
                         /\ \A k \in d : out[k].s1 = id1 /\ out[k].s2 = id2

\* The 0-based index of the violation that a diagnostic of the lines of Spec
\* is about: the first character of a blank line or of a comment line, and
\* the first character that is not a space of a mis-indented line.
ViolationIndex(msg, text) ==
    IF msg = "incorrect indentation" THEN FirstColumn(text) ELSE 0

\* C11: every diagnostic of a line carries the file being linted, the
\* 1-based index of the line in that file, which is the file's line counter,
\* and the 0-based index of the violation plus 1; the line counter is 1 for
\* the first line and one more for every line read, whatever the line is.
C11_DiagnosticLocation ==
    /\ pc \in {"lint_line", "scanned"} => state.lineno = nread
    /\ Scanned =>
           \A k \in 1..Len(out) :
               /\ out[k].file = i
               /\ out[k].line = nread
               /\ out[k].msg \in {"multiple blank lines", "too many semicolons",
                                  "incorrect indentation"}
               /\ out[k].col = ViolationIndex(out[k].msg, line) + 1

\* Of two files only the second has a violation, on its second line after a
\* blank or comment line: the one diagnostic carries the second file.
C11_Witness ==
    /\ Scanned
    /\ argv = <<"ok", "ok">>
    /\ diagnosed = {2}
    /\ nread = 2
    /\ Len(out) = 1
    /\ out[1].file = 2
    /\ out[1].line = 2
    /\ out[1].msg = "incorrect indentation"
    /\ out[1].col = 1

\* Lines that end and lines that do not end with a space: code, a comment
\* line, a line with a trailing comment, a line of spaces only, lines that
\* open, continue and close a string.
SpecSpace ==
    InitOne /\ [][NextOne(
        { <<"a", "\n">>,
          <<"a", " ", "\n">>,
          <<"a", " ", " ", "\n">>,
          <<" ", "\n">>,
          <<";", " ", "x", "\n">>,
          <<";", " ", "x", " ", "\n">>,
          <<"a", " ", ";", " ", "x", " ", "\n">>,
          <<"\"", "a", " ", "\n">>,
          <<"\"", "a", "\n">>,
          <<"b", "\"", " ", "\n">>,
          <<"b", "\"", "\n">> }
    )]_vars

\* C12: a line that is not blank gets exactly one 'trailing whitespace'
\* diagnostic, at the column of its last character before the terminator, if
\* that character is a space, and none if it is not; inside strings and on
\* comment lines too.
C12_TrailingWhitespace ==
    (Scanned /\ Len(line) > 1) =>
        LET n == Len(line) - 1
            d == DiagsWith(out, "trailing whitespace")
        IN  IF line[n] = " "
            THEN /\ Cardinality(d) = 1
                 /\ \A k \in d : out[k].col = (n - 1) + 1
            ELSE d = {}

\* A line inside a string that ends with a space got the diagnostic.
C12_Witness ==
    /\ Scanned
    /\ pre.in_string
    /\ state.in_string
    /\ line[Len(line) - 1] = " "
    /\ DiagsWith(out, "trailing whitespace") # {}

\* C13: lint starts every file from the same fresh State, whatever the files
\* before it were and however they were left (inside a string, with forms or
\* wrappers open, with diagnostics), and the first line of the file is linted
\* from that State.
C13_FreshStatePerFile ==
    LET fresh == [filename |-> i, lineno |-> 1, status |-> 0,
                  prev_blanks |-> 0, in_string |-> FALSE, num_wrappers |-> 0,
                  quoted_align |-> 0, depth |-> 0,
                  stack |-> [k \in 0..(MAX_DEPTH - 1) |-> 0],
                  import_mode |-> IB_NONE, last_import_id |-> <<>>,
                  last_import_name |-> <<>>]
    IN  /\ (pc = "getline" /\ nread = 0) => state = fresh
        /\ (Scanned /\ nread = 1) =>
               /\ pre = fresh
               /\ out = lint_line(fresh, line).out
               /\ state = lint_line(fresh, line).st

\* The second file is begun after a first one that had a diagnostic and
\* ended inside a string with a form open.
C13_Witness ==
    /\ pc = "getline"
    /\ nread = 0
    /\ i = 2
    /\ 1 \in diagnosed
    /\ left.in_string
    /\ left.depth > 0
    /\ state.status = 0
    /\ ~state.in_string
    /\ state.depth = 0

\* A line of code with any of five violations: a space of indentation too
\* many, no space before '(', a tab, more than 80 columns, a space before
\* the terminator.  The form that the line opens is closed on the line.
ViolationLine(indent, paren, tab, long, trail) ==
    (IF indent THEN <<" ">> ELSE <<>>)
    \o <<"a">> \o (IF paren THEN <<>> ELSE <<" ">>)
    \o <<"(", "b", " ", "c", ")">>
    \o <<" ">> \o (IF tab THEN <<"\t">> ELSE <<"d">>)
    \o (IF long THEN Rep("x", MAX_COLUMNS) ELSE <<"x">>)
    \o (IF trail THEN <<" ">> ELSE <<>>)
    \o <<"\n">>

ViolationLines ==
    {ViolationLine(indent, paren, tab, long, trail) :
        indent \in BOOLEAN, paren \in BOOLEAN, tab \in BOOLEAN,
        long \in BOOLEAN, trail \in BOOLEAN}

SpecViolations == InitOne /\ [][NextOne(ViolationLines)]_vars

\* The characters after which '(' needs no space before it.
BeforeParen == {" ", "#", "'", "(", ",", "@", "[", Backtick}

\* C14: on a line of code without a comment every rule whose condition holds
\* gets its own diagnostic, whatever the other rules print on this line and
\* whatever was printed on earlier lines: line too long, trailing
\* whitespace, one illegal character per tab, incorrect indentation, and one
\* expected space per '(' that follows a wrong character; and nothing else
\* is printed.
C14_IndependentDiagnostics ==
    (Scanned /\ line \in ViolationLines) =>
        LET n == Len(line) - 1
            count(msg) == Cardinality(DiagsWith(out, msg))
            c == FirstColumn(line)
            tabs == {p \in 1..n : line[p] = "\t"}
            parens == {p \in 2..n : /\ line[p] = "("
                                    /\ line[p - 1] \notin BeforeParen}
            bad == /\ c # pre.stack[pre.depth]
                   /\ ~(c = 0 /\ pre.depth = pre.num_wrappers)
                   /\ c # pre.quoted_align
            num(cond) == IF cond THEN 1 ELSE 0
        IN  /\ count("line too long: %d > %d") = num(n > MAX_COLUMNS)
            /\ count("trailing whitespace") = num(line[n] = " ")
            /\ count("illegal character '\\t'") = Cardinality(tabs)
            /\ count("incorrect indentation") = num(bad)
            /\ count("expected space before '('") = Cardinality(parens)
            /\ Len(out) = num(n > MAX_COLUMNS) + num(line[n] = " ")
                             + Cardinality(tabs) + num(bad)
                             + Cardinality(parens)

\* A line with all five violations got five diagnostics, after a line that
\* had diagnostics too.
C14_Witness ==
    /\ Scanned
    /\ line = ViolationLine(TRUE, TRUE, TRUE, TRUE, TRUE)
    /\ nread = 2
    /\ pre.status = 1
    /\ Len(out) = 5

\* Lines for the depth of nesting: one, MAX_DEPTH - 1 and MAX_DEPTH opening
\* delimiters on a line, closing delimiters that are not matched, with and
\* without an opening one after them, and a line of code.
SpecDepth ==
    InitOne /\ [][NextOne(
        { <<"(", "\n">>,
          Rep("(", MAX_DEPTH - 1) \o <<"\n">>,
          Rep("(", MAX_DEPTH) \o <<"\n">>,
          <<")", "\n">>,
          <<")", ")", " ", "(", "\n">>,
          <<"a", "\n">> }
    )]_vars

C20_NoStoreBeyondStack ==
    ~(pc = "undefined" /\ state.depth >= MAX_DEPTH)

\* Operator tokens: the empty one, names of the table, proper prefixes of
\* names, and words that are no names.
Tokens ==
    { <<>>,
      <<"S", "I", "C", "P">>, <<"S", "I", "C">>,
      <<"d", "e", "f", "i", "n", "e">>, <<"d", "e", "f">>,
      <<"l", "e", "t">>, <<"l", "e", "t", "*">>, <<"l", "e">>,
      <<"l", "e", "t", "x">>, <<"c">>, <<"x">> }

\* Lines that open a form at column 0 with a token as its operator and one
\* operand, and a line that closes a form.
SpecLookup ==
    InitOne /\ [][NextOne(
        {OpenLine(0, tok, <<" ", "x">>) : tok \in Tokens} \cup { <<")", "\n">> }
    )]_vars

\* The rules of the table entry whose name is the token, DEFAULT if none is.
ExactRules(tok) ==
    IF \E k \in 1..Len(INDENT_RULES) : INDENT_RULES[k].name = tok
    THEN INDENT_RULES[CHOOSE k \in 1..Len(INDENT_RULES) :
                          INDENT_RULES[k].name = tok].rules
    ELSE IR_DEFAULT

\* C16: for the operator token of a form opened at column 0 the lookup
\* returns the rules of the table entry of that name, and DEFAULT for a
\* token that is no name of the table, the empty token included.
C16_ExactLookup ==
    Scanned =>
        \A tok \in Tokens :
            line = OpenLine(0, tok, <<" ", "x">>) =>
                lookup_indent_rules(line, 1, Len(tok)) = ExactRules(tok)

\* Lines for wrapper forms and top-level lines: a wrapper form opened at
\* column 0, a closing delimiter at the start and inside of a line, a form
\* that is no wrapper opened and closed on its line, a form left open, a
\* form without an operator, a quoted form, code at the columns 0 and 2.
SpecWrapper ==
    InitOne /\ [][NextOne(
        { <<"(", "S", "I", "C", "P", " ", "x", "\n">>,
          <<")", "\n">>,
          <<"x", ")", "\n">>,
          <<"(", "a", " ", "b", ")", "\n">>,
          <<"(", "a", "\n">>,
          <<"(", " ", "x", "\n">>,
          <<"'", "(", "a", ")", "\n">>,
          <<" ", " ", "x", "\n">>,
          <<"x", "\n">> }
    )]_vars

\* The text opens a form at column 0 whose operator, the word up to the
\* first space or terminator, is looked up as a wrapper.
OpensWrapper(text) ==
    /\ text[1] = "("
    /\ LET end == CHOOSE k \in 2..Len(text) :
                      /\ text[k] \in {" ", "\n"}
                      /\ \A j \in 2..(k - 1) : text[j] \notin {" ", "\n"}
       IN  "WRAPPER" \in lookup_indent_rules(text, 1, end - 2)

\* C17 as stated, where every form has been closed: no wrapper form is open
\* at depth 0, so the count is 0 there.
C17_OpenWrapperCount ==
    (InFile /\ state.depth = 0) => state.num_wrappers = 0

\* C17, amended: the count is the number of wrapper forms met so far in the
\* file.  A line adds one to it if it opens a form at column 0 whose
\* operator is looked up as a wrapper; no line takes anything from it, the
\* line that closes a wrapper form included.
C17_WrappersEncountered ==
    /\ InFile => state.num_wrappers >= 0
    /\ Scanned =>
           state.num_wrappers =
               pre.num_wrappers + (IF OpensWrapper(line) THEN 1 ELSE 0)

\* The wrapper form of the first line is closed by the second line, and the
\* count is still 1.
C17_Witness ==
    /\ Scanned
    /\ nread = 2
    /\ line = <<")", "\n">>
    /\ pre.depth = 1
    /\ pre.num_wrappers = 1
    /\ state.depth = 0
    /\ state.num_wrappers = 1

\* C18: the closing delimiter of a form that is no wrapper, here of the form
\* (a b) that its own line opened, never gets "expected ')' at start of line
\* for wrapper", whatever the lines before were; the one that closes a
\* wrapper form gets it iff it is not the first character of its line.
C18_WrapperCloseOnly ==
    LET d == DiagsWith(out, "expected ')' at start of line for wrapper")
        wrapper == /\ nread = 2
                   /\ pre.depth = 1
                   /\ pre.num_wrappers = 1
                   /\ pre.stack[1] = 6
    IN  Scanned =>
            /\ line = <<"(", "a", " ", "b", ")", "\n">> => d = {}
            /\ (wrapper /\ line = <<")", "\n">>) => d = {}
            /\ (wrapper /\ line = <<"x", ")", "\n">>) =>
                   /\ Cardinality(d) = 1
                   /\ \A k \in d : out[k].col = 2

\* C19: while a file is linted, the bottom entry of the stack is 0.
C19_BottomEntryZero ==
    (InFile /\ state.depth >= 0) => state.stack[0] = 0

\* C21: a file starts with no quoted column, and the quoted column of a form
\* that has been closed exempts no later line: a line at column 2 with no
\* form open, which lies outside every form, gets 'incorrect indentation'.
C21_QuotedAlignInsideQuotedForm ==
    /\ (pc = "getline" /\ nread = 0) => state.quoted_align = -1
    /\ (Scanned /\ pre.depth = 0 /\ pre.stack[0] = 0
          /\ line = <<" ", " ", "x", "\n">>) =>
           DiagsWith(out, "incorrect indentation") # {}

\* Well-formed ids: a sigil and dot-separated numbers.  They differ in the
\* sigil, in the number of segments, in the last segment and in a segment
\* that is not the last, by value and by number of digits.
WellFormedIds ==
    { <<":", "1">>, <<":", "2">>,
      <<":", "1", ".", "2">>, <<":", "1", ".", "3">>, <<":", "1", ".", "9">>,
      <<":", "1", ".", "1", "0">>,
      <<":", "1", ".", "2", ".", "5">>, <<":", "1", ".", "2", ".", "1">>,
      <<":", "1", ".", "1", "0", ".", "1">>,
      <<"?", "1", ".", "1">> }

\* Lines for the order of ids: the line that opens a section form and the
\* use blocks of two subforms with one name each.
SpecIds ==
    InitOne /\ [][NextOne(
        { <<"(", "E", "x", "e", "r", "c", "i", "s", "e", " ", "?", "1", "\n">> }
        \cup {UseLine(id1, TRUE, id2, TRUE) :
                id1 \in WellFormedIds, id2 \in WellFormedIds}
    )]_vars

\* The numbers of the segments of a well-formed id, from index k on, with
\* the value n of the digits of the segment read so far.
RECURSIVE SegmentsFrom(_, _, _)
SegmentsFrom(id, k, n) ==
    IF k > Len(id) THEN <<n>>
    ELSE IF id[k] = "." THEN <<n>> \o SegmentsFrom(id, k + 1, 0)
    ELSE SegmentsFrom(id, k + 1, 10 * n + (Ord[id[k]] - Ord["0"]))

Segments(id) == SegmentsFrom(id, 2, 0)

\* The order of sequences of numbers, a prefix first.
RECURSIVE SegmentsLeq(_, _)
SegmentsLeq(a, b) ==
    IF a = <<>> THEN TRUE
    ELSE IF b = <<>> THEN FALSE
    ELSE IF Head(a) # Head(b) THEN Head(a) < Head(b)
    ELSE SegmentsLeq(Tail(a), Tail(b))

\* The order of ids that the claim describes: ':' before '?', then the
\* segments as numbers from left to right.
IdLeq(id1, id2) ==
    IF id1[1] # id2[1] THEN id1[1] = ":"
    ELSE SegmentsLeq(Segments(id1), Segments(id2))

\* C22: for the well-formed ids id1 and then id2 of the subforms of a use
\* block, correct_id_order is true iff id1 <= id2 in the order of sigil and
\* numeric segments, so that the second subform gets the diagnostic iff
\* id1 > id2; the first id, compared with the empty one, is in order.
C22_IdOrder ==
    (FromIndent /\ pre.import_mode = IB_SEC /\ pre.depth = 1) =>
        \A id1 \in WellFormedIds, id2 \in WellFormedIds :
            line = UseLine(id1, TRUE, id2, TRUE) =>
                LET d == DiagsWith(out,
                             "incorrect import id ordering: %s > %.*s")
                IN  /\ correct_id_order(<<>>, id1, 0, Len(id1))
                    /\ correct_id_order(id1, id2, 0, Len(id2))
                           = IdLeq(id1, id2)
                    /\ Cardinality(d) = IF IdLeq(id1, id2) THEN 0 ELSE 1

\* The names of the lines of SpecNames.
ImportNames == { <<"a">>, <<"b">>, <<"a", "b">> }

\* The use block with one subform of the names n1 and n2 on one line, at
\* column 2, which also closes the section form around it.
NamesLine(n1, n2) ==
    Indented(2, <<"(", "u", "s", "e", " ", "(", ":", "1", " ">> \o n1
                \o <<" ">> \o n2 \o <<")", ")", ")">>)

\* The same use block on two lines, broken after the first name.
NamesOpenLine(n1) ==
    Indented(2, <<"(", "u", "s", "e", " ", "(", ":", "1", " ">> \o n1)

\* The line after the break: the second name and the closing delimiters.
NamesCloseLine(n2) == Indented(11, n2 \o <<")", ")", ")">>)

SpecNames ==
    InitOne /\ [][NextOne(
        { <<"(", "E", "x", "e", "r", "c", "i", "s", "e", " ", "?", "1", "\n">> }
        \cup {NamesLine(n1, n2) : n1 \in ImportNames, n2 \in ImportNames}
        \cup {NamesOpenLine(n1) : n1 \in ImportNames}
        \cup {NamesCloseLine(n2) : n2 \in ImportNames}
    )]_vars

\* a is lexicographically greater than b.
RECURSIVE LexGreater(_, _)
LexGreater(a, b) ==
    IF a = <<>> THEN FALSE
    ELSE IF b = <<>> THEN TRUE
    ELSE IF Head(a) # Head(b) THEN Ord[Head(a)] > Ord[Head(b)]
    ELSE LexGreater(Tail(a), Tail(b))

\* The diagnostics in out about the order of names.
NameDiags == DiagsWith(out, "incorrect import name ordering: %s > %.*s")

\* C23: for the names n1 and then n2 of a subform, separated by a space or
\* by a line break, the second name gets exactly one 'incorrect import name
\* ordering: n1 > n2' iff n1 is lexicographically greater than n2, and the
\* first name gets none.
C23_NameOrder ==
    FromIndent =>
        \A n1 \in ImportNames, n2 \in ImportNames :
            LET expected == IF LexGreater(n1, n2) THEN 1 ELSE 0
                named == \A k \in NameDiags :
                             out[k].s1 = n1 /\ out[k].s2 = n2
            IN  /\ (/\ pre.import_mode = IB_SEC
                    /\ pre.depth = 1
                    /\ line = NamesLine(n1, n2)) =>
                       Cardinality(NameDiags) = expected /\ named
                /\ (/\ pre.import_mode = IB_SEC
                    /\ pre.depth = 1
                    /\ line = NamesOpenLine(n1)) =>
                       NameDiags = {}
                /\ (/\ pre.import_mode = IB_ID
                    /\ pre.last_import_name = n1
                    /\ line = NamesCloseLine(n2)) =>
                       Cardinality(NameDiags) = expected /\ named

\* Operator tokens for the import context: the sectioning keywords, use,
\* proper prefixes of them, the empty token, and words that are neither.
BlockTokens ==
    { <<"C", "h", "a", "p", "t", "e", "r">>,
      <<"S", "e", "c", "t", "i", "o", "n">>,
      <<"E", "x", "e", "r", "c", "i", "s", "e">>,
      <<"u", "s", "e">>,
      <<"C", "h">>, <<"u">>, <<>>,
      <<"C", "h", "a", "p", "t", "e", "r", "s">>, <<"x">> }

\* The columns at which the lines of SpecBlocks open a form.
BlockColumns == {0, 2}

\* Lines that open a form with a token as its operator and one operand, and
\* a line that closes a form.
SpecBlocks ==
    InitOne /\ [][NextOne(
        {OpenLine(k, tok, <<" ", "x">>) :
            k \in BlockColumns, tok \in BlockTokens}
        \cup { <<")", "\n">> }
    )]_vars

\* The operator token at the column k moves the import context m up.
MovesUp(m, k, tok) ==
    \/ /\ m = IB_NONE
       /\ k = 0
       /\ tok \in { <<"C", "h", "a", "p", "t", "e", "r">>,
                    <<"S", "e", "c", "t", "i", "o", "n">>,
                    <<"E", "x", "e", "r", "c", "i", "s", "e">> }
    \/ m = IB_SEC /\ k = 2 /\ tok = <<"u", "s", "e">>
    \/ m = IB_USE

\* C24: an operator token moves the import context up one stage from NONE
\* only if it is exactly Chapter, Section or Exercise at column 0, from
\* IN_SECTION_BLOCK only if it is exactly use at column 2, from IN_USE_BLOCK
\* always; any other token or column leaves the context where it was.
C24_UpwardMoves ==
    Scanned =>
        \A k \in BlockColumns, tok \in BlockTokens :
            line = OpenLine(k, tok, <<" ", "x">>) =>
                state.import_mode =
                    IF MovesUp(pre.import_mode, k, tok)
                    THEN pre.import_mode + 1 ELSE pre.import_mode

\* Lines for a section form and its content: the line that opens it, a
\* nested form, a use block, a string with a delimiter in it, and the line
\* that closes it.  Only the first one opens a form that it leaves open.
SpecSection ==
    InitOne /\ [][NextOne(
        { <<"(", "E", "x", "e", "r", "c", "i", "s", "e", " ", "?", "1", "\n">>,
          <<" ", " ", "(", "a", ")", "\n">>,
          <<" ", " ", "(", "u", "s", "e", " ", "(", ":", "1", " ", "a", ")",
            ")",
            "\n">>,
          <<" ", " ", "\"", "s", ")", "\"", "\n">>,
          <<")", "\n">> }
    )]_vars

\* C25: between the lines of a section form with balanced content the
\* import context is not NONE while the form is open, and it is NONE once
\* the form is closed.
C25_ContextWhileSectionOpen ==
    Scanned =>
        /\ state.depth >= 1 => state.import_mode # IB_NONE
        /\ state.depth = 0 => state.import_mode = IB_NONE

\* Lines for the stages of the import context: a section form, a use block
\* left open inside its first subform, after its first subform and before
\* it, a subform, a string with a closing delimiter in it, and a closing
\* delimiter on a line of its own.
StageUseInSubform ==
    <<" ", " ", "(", "u", "s", "e", " ", "(", ":", "2", " ", "a", "\n">>

StageUseAfterSubform ==
    <<" ", " ", "(", "u", "s", "e", " ", "(", ":", "2", " ", "a", ")", "\n">>

StageSubform == <<" ", " ", " ", " ", "(", ":", "1", " ", "a", "\n">>

StageString == <<" ", " ", "\"", ")", "\"", "\n">>

StageClose == <<")", "\n">>

SpecStages ==
    InitOne /\ [][NextOne(
        { <<"(", "E", "x", "e", "r", "c", "i", "s", "e", " ", "?", "1", "\n">>,
          StageUseInSubform, StageUseAfterSubform,
          <<" ", " ", "(", "u", "s", "e", "\n">>,
          StageSubform, StageString, StageClose }
    )]_vars

\* The diagnostics in out about the order of ids.
IdDiags == DiagsWith(out, "incorrect import id ordering: %s > %.*s")

\* C26: the import context is one of the four stages; the last name is
\* empty unless the context is IN_ID_BLOCK and the last id is empty unless
\* it is IN_USE_BLOCK or IN_ID_BLOCK; a closing delimiter moves the context
\* down one stage unless it is NONE, clearing the last name when it leaves
\* IN_ID_BLOCK and the last id when it leaves IN_USE_BLOCK, and one inside a
\* string does not; the first id of a use block is not flagged.
C26_ImportStages ==
    Scanned =>
        /\ state.import_mode \in {IB_NONE, IB_SEC, IB_USE, IB_ID}
        /\ state.import_mode # IB_ID => state.last_import_name = <<>>
        /\ state.import_mode \notin {IB_USE, IB_ID} =>
               state.last_import_id = <<>>
        /\ line = StageClose =>
               /\ state.import_mode =
                      IF pre.import_mode = IB_NONE THEN IB_NONE
                      ELSE pre.import_mode - 1
               /\ pre.import_mode = IB_ID =>
                      state.last_import_id = pre.last_import_id
        /\ line = StageString => state.import_mode = pre.import_mode
        /\ (/\ line \in {StageUseInSubform, StageUseAfterSubform}
            /\ pre.import_mode = IB_SEC) => IdDiags = {}
        /\ (/\ line = StageSubform
            /\ pre.import_mode = IB_USE
            /\ pre.last_import_id = <<>>) => IdDiags = {}

\* A closing delimiter has left a use block whose last id was not empty.
C26_Witness ==
    /\ Scanned
    /\ line = StageClose
    /\ pre.import_mode = IB_USE
    /\ pre.last_import_id # <<>>
    /\ state.import_mode = IB_SEC
    /\ state.last_import_id = <<>>

\* The operators of the table with the wrapper bit.
WrapperOperators ==
    { <<"S", "I", "C", "P">>, <<"l", "i", "b", "r", "a", "r", "y">> }

\* The columns at which the lines of SpecWrapperColumns open a form: the top
\* level, a short one, and the first one whose successor is 1 as an 8-bit
\* number.
WrapperColumns == {0, 2, 256}

\* What follows the operator on a line of SpecWrapperColumns.
WrapperOperands == { <<>>, <<" ", "x">> }

\* Lines that open a form with a wrapper operator and leave it open, and a
\* line that closes a form.
SpecWrapperColumns ==
    InitOne /\ [][NextOne(
        {OpenLine(k, op, rest) :
            k \in WrapperColumns, op \in WrapperOperators,
            rest \in WrapperOperands}
        \cup { <<")", "\n">> }
    )]_vars

\* The expected column of a form opened at column k with the operator op,
\* by the flags of op other than the wrapper bit: two past the delimiter for
\* library (special), and for SICP the first operand's column if there is
\* one and one past the delimiter if not.
WrapperExpectedColumn(k, op, rest) ==
    IF "SPECIAL" \in ExactRules(op) THEN k + 2
    ELSE IF rest = <<>> THEN k + 1
    ELSE k + Len(op) + 2

\* C27: a line that opens a form with SICP or library as its operator
\* counts a wrapper iff the opening delimiter is at column 0, and at every
\* column the other flags of the operator give the expected column.
C27_WrapperOnlyAtColumnZero ==
    Scanned =>
        \A k \in WrapperColumns, op \in WrapperOperators,
           rest \in WrapperOperands :
            line = OpenLine(k, op, rest) =>
                /\ state.num_wrappers =
                       pre.num_wrappers + (IF k = 0 THEN 1 ELSE 0)
                /\ state.stack[state.depth] =
                       WrapperExpectedColumn(k, op, rest)

\* Operators without the special bit (a word that is no prefix of a name of
\* the table, and one that is a prefix of cond and of case) and the
\* operators with the special and the uniform bit.
ColumnOperators ==
    { <<"x">>, <<"c">>, <<"b", "e", "g", "i", "n">>, <<"c", "o", "n", "d">> }

\* The columns at which the lines of SpecColumns open a form: two short
\* ones, and the first one whose successor is no 8-bit number.
ColumnColumns == {0, 2, 255}

\* What follows the operator on a line of SpecColumns: the terminator, or a
\* space and the first operand.
ColumnOperands == { <<>>, <<" ", "y">> }

\* Lines that open a form and leave it open, and a line that closes a form.
SpecColumns ==
    InitOne /\ [][NextOne(
        {OpenLine(k, op, rest) :
            k \in ColumnColumns, op \in ColumnOperators,
            rest \in ColumnOperands}
        \cup { <<")", "\n">> }
    )]_vars

\* The expected column of a form opened at column k with an operator op
\* that has no special bit, or the special and the uniform bit.
ExpectedColumn(k, op, rest) ==
    IF rest # <<>> THEN k + Len(op) + 2
    ELSE IF "SPECIAL" \in ExactRules(op) THEN k + 2
    ELSE k + 1

\* C28: after the operator of a form opened at column k the expected
\* column of the form is the first operand's column if a space follows the
\* operator; if the terminator follows, it is k + 1 for an operator without
\* the special bit and k + 2 for begin and cond.
C28_ExpectedColumn ==
    Scanned =>
        \A k \in ColumnColumns, op \in ColumnOperators,
           rest \in ColumnOperands :
            line = OpenLine(k, op, rest) =>
                /\ state.depth = pre.depth + 1
                /\ state.stack[state.depth] = ExpectedColumn(k, op, rest)

\* Lines for strings that go over a line break: a line that ends inside a
\* string; lines without a closing quote, one with wrong indentation, two
\* spaces, delimiters and a comment marker, one with a quote after one
\* backslash; lines that close the string, with a quote after two
\* backslashes, after none, and after none on a line that starts with the
\* comment marker; and a closing delimiter.
StrOpen == <<"(", "a", " ", "\"", "b", "\n">>

StrInside == <<" ", "x", " ", " ", "(", " ", ";", "y", " ", ")", "\n">>

StrEscaped == <<"x", "\\", "\"", "y", "\n">>

StrEven == <<"x", "\\", "\\", "\"", "\n">>

StrClose == <<"x", "\"", "\n">>

StrSemicolon == <<";", "x", "\"", "\n">>

SpecString ==
    InitOne /\ [][NextOne(
        { StrOpen, StrInside, StrEscaped, StrEven, StrClose, StrSemicolon,
          <<")", "\n">> }
    )]_vars

\* C29: a line that ends inside a string leaves in_string set; a line that
\* starts inside the string and has no unescaped quote gets no diagnostic
\* and changes nothing, whatever indentation, delimiters, spaces and comment
\* markers it has, a quote after one backslash included; a quote after two
\* backslashes or after none closes the string.
C29_StringAcrossLines ==
    Scanned =>
        /\ (~pre.in_string /\ line = StrOpen) => state.in_string
        /\ (pre.in_string /\ line \in {StrInside, StrEscaped}) =>
               /\ out = <<>>
               /\ state = [pre EXCEPT !.prev_blanks = 0]
        /\ (pre.in_string /\ line \in {StrEven, StrClose, StrSemicolon}) =>
               /\ out = <<>>
               /\ ~state.in_string

\* Lines for quotes in code: a form with the character literal of the
\* double quote, a form with a string, a form that ends inside a string,
\* the end of that string, and a closing delimiter.
QuoteChar == <<"(", "a", " ", "#", "\\", "\"", " ", "b", ")", "\n">>

SpecQuote ==
    InitOne /\ [][NextOne(
        { QuoteChar,
          <<"(", "a", " ", "\"", "b", "\"", ")", "\n">>,
          <<"(", "a", " ", "\"", "b", "\n">>,
          <<"c", "\"", ")", "\n">>,
          <<")", "\n">> }
    )]_vars

\* C30: a double quote in code that comes right after an unescaped
\* backslash starts no string: after the line with the character literal,
\* scanned from outside a string, in_string is not set and the form of the
\* line is closed.
C30_EscapedQuoteInCode ==
    (Scanned /\ ~pre.in_string /\ line = QuoteChar) =>
        /\ ~state.in_string
        /\ state.depth = pre.depth

\* What comes before the comment marker on a line of SpecComment: nothing,
\* or a space.
CommentBefore == { <<>>, <<" ">> }

\* What comes after the comment marker: a space and text with a delimiter,
\* a quote and two spaces; the terminator; a second marker and a space; a
\* second marker and text; a second marker and the terminator; text with
\* a delimiter and a quote; a space and text that ends in a space.
CommentTails ==
    { <<" ", "(", "\"", " ", " ", "b">>,
      <<>>,
      <<";", " ", "(">>,
      <<";", "(">>,
      <<";">>,
      <<"(", "\"">>,
      <<" ", "x", " ">> }

\* The line that opens a form with the operator a and has a comment.
CodeComment(before, tail) ==
    <<"(", "a">> \o before \o <<";">> \o tail \o <<"\n">>

\* Lines with a comment after code, the line that opens a section form,
\* and a closing delimiter.
SpecComment ==
    InitOne /\ [][NextOne(
        {CodeComment(before, tail) :
            before \in CommentBefore, tail \in CommentTails}
        \cup { <<"(", "E", "x", "e", "r", "c", "i", "s", "e", " ", "?", "1",
                 "\n">>,
               <<")", "\n">> }
    )]_vars

\* The text after a comment marker asks for 'expected space after ;'.
WantsSpaceAfter(tail) ==
    IF tail = <<>> THEN TRUE
    ELSE IF tail[1] = " " THEN FALSE
    ELSE IF tail[1] = ";" THEN Len(tail) = 1 \/ tail[2] # " "
    ELSE TRUE

RunNexts ==
    { <<"b">>, <<";", " ", "c">>, <<>>, <<"\"", "s", "\"">>,
      <<"(", "b", ")">> }

\* The line with a run of n spaces after the operator of a form.
RunLine(n, next) == <<"(", "a">> \o Rep(" ", n) \o next \o <<"\n">>

\* A run inside a string; a run as indentation; two runs in code; a run in
\* a comment after code; a run on a comment line; a run before and a run
\* after a quote.
RunInString ==
    <<"(", "a", " ", "\"", "b", " ", " ", "c", "\"", ")", "\n">>

RunIndent == <<" ", " ", " ", "x", "\n">>

RunTwice == <<"a", " ", " ", "b", " ", " ", " ", "c", "\n">>

RunInComment == <<"a", " ", ";", " ", "b", " ", " ", "c", "\n">>

RunCommentLine == <<";", ";", " ", "a", " ", " ", "b", "\n">>

RunQuote == <<"c", " ", " ", "d", "\"", " ", " ", "e", "\n">>

\* Lines with runs of one to three spaces before what follows, and the
\* lines above.
SpecRuns ==
    InitOne /\ [][NextOne(
        {RunLine(n, next) : n \in (1..3), next \in RunNexts}
        \cup { RunInString, RunIndent, RunTwice, RunInComment, RunCommentLine,
               RunQuote }
    )]_vars

\* The columns of the first characters after the maximal runs of two or
\* more spaces in the code of a line of SpecRuns, without those where a
\* space or a ';' stands, for a line that starts inside a string or not.
RunEnds(l, in_string) ==
    IF in_string
    THEN IF l = RunInString \/ l = RunQuote THEN {7} ELSE {}
    ELSE IF l = RunTwice THEN {3, 7}
    ELSE IF l = RunQuote THEN {3}
    ELSE IF l \in {RunInString, RunIndent, RunInComment, RunCommentLine}
    THEN {}
    ELSE IF Len(l) >= 5 /\ l[3] = " " /\ l[4] = " "
    THEN IF l[5] = " "
         THEN IF l[6] = ";" THEN {} ELSE {5}
         ELSE IF l[5] = ";" THEN {} ELSE {4}
    ELSE {}

\* The diagnostics in out about two spaces in a row.
RunDiags == DiagsWith(out, "unexpected two spaces in a row")

\* C32: a line gets one 'unexpected two spaces in a row' at the first
\* character after each maximal run of two or more spaces in code, unless
\* that character is a ';', and none for runs in strings, in comments and
\* in the indentation.
C32_TwoSpaces ==
    Scanned =>
        /\ {out[k].col - 1 : k \in RunDiags} = RunEnds(line, pre.in_string)
        /\ Cardinality(RunDiags) = Cardinality(RunEnds(line, pre.in_string))

\* A line that starts inside a string, with a run in the string and a run
\* after it, got its diagnostic after the second run.
C32_Witness ==
    /\ Scanned
    /\ pre.in_string
    /\ line = RunQuote
    /\ \E k \in RunDiags : out[k].col = 8

\* The characters before a delimiter on the lines of SpecDelims: the ones
\* allowed before an opening delimiter, and a letter, a backslash and the
\* closing delimiters.
DelimBefore ==
    { " ", "#", "'", "(", "[", ",", "@", Backtick, "a", "\\", ")", "]" }

\* The delimiters.
Delims == { "(", "[", ")", "]" }

\* Lines with a delimiter at column 0, and with a delimiter at column 1
\* after each of the characters, with and without a word after it.  None
\* has a quote or a comment marker.
SpecDelims ==
    InitOne /\ [][NextOne(
        { <<d, "\n">> : d \in Delims }
        \cup { <<ch, d, "\n">> : ch \in DelimBefore, d \in Delims }
        \cup { <<ch, d, "x", "\n">> : ch \in DelimBefore, d \in {"(", "["} }
    )]_vars

\* The columns of the line's opening delimiters that are not at column 0
\* and come after a character that is not allowed before them.
OpenNoSpace(l) ==
    {p \in 1..(Len(l) - 1) :
        /\ l[p + 1] \in {"(", "["}
        /\ l[p] \notin {" ", "#", "'", "(", "[", ",", "@", Backtick}}

\* The columns of the line's closing delimiters that come after a space.
CloseAfterSpace(l) ==
    {p \in 1..(Len(l) - 1) : l[p + 1] \in {")", "]"} /\ l[p] = " "}

\* The number of the line's characters that are in the set.
CountIn(l, set) == Cardinality({p \in 1..Len(l) : l[p] \in set})

\* The columns of the diagnostics in out with the message.
DiagColumns(msg) == {out[k].col - 1 : k \in DiagsWith(out, msg)}

\* C33: on a line of code an opening delimiter gets "expected space before
\* '('" iff it is not at column 0 and the character before it is none of
\* the allowed ones, a closing delimiter gets "unexpected space before ')'"
\* iff the character before it is a space, each once, and every delimiter
\* moves the depth, flagged or not.
C33_DelimiterSpacing ==
    (Scanned /\ ~pre.in_string) =>
        LET open == "expected space before '('"
            close == "unexpected space before ')'"
        IN  /\ DiagColumns(open) = OpenNoSpace(line)
            /\ Cardinality(DiagsWith(out, open)) =
                   Cardinality(OpenNoSpace(line))
            /\ DiagColumns(close) = CloseAfterSpace(line)
            /\ Cardinality(DiagsWith(out, close)) =
                   Cardinality(CloseAfterSpace(line))
            /\ state.depth = pre.depth + CountIn(line, {"(", "["})
                                       - CountIn(line, {")", "]"})

\* An opening delimiter after a letter was flagged and has opened a form.
C33_Witness ==
    /\ Scanned
    /\ line = <<"a", "(", "x", "\n">>
    /\ DiagColumns("expected space before '('") = {1}
    /\ state.depth = pre.depth + 1
    /\ state.stack[state.depth] = 2

\* Lines for the quoted column, all without strings and comments, and all
\* but one with code at column 0: forms that are plain, quoted, quoted and
\* nested, nested, quoted and then plain, quoted and closed, quoted with
\* brackets, after a backtick; a word; a closing delimiter; and a word at
\* column 2, where the indentation check can meet the quoted column.
QuotedIndented == <<" ", " ", "x", "\n">>

SpecQuoted ==
    InitOne /\ [][NextOne(
        { <<"(", "a", "\n">>,
          <<"'", "(", "a", " ", "b", "\n">>,
          <<"'", "(", "(", "a", "\n">>,
          <<"(", "(", "a", "\n">>,
          <<"x", " ", "'", "(", "a", " ", "(", "b", "\n">>,
          <<"'", "(", "a", ")", " ", "x", "\n">>,
          <<"'", "[", "[", "a", "\n">>,
          <<Backtick, "(", "a", "\n">>,
          <<"x", "\n">>,
          <<")", "\n">>,
          QuotedIndented }
    )]_vars

\* quoted_align after the characters of l from the p-th on, when it is qa
\* before them and only opening delimiters change it: one at column i makes
\* it i + 1 after a quote mark, or after an opening delimiter if it was
\* not -1, and -1 otherwise.
RECURSIVE QuotedAfter(_, _, _)
QuotedAfter(l, p, qa) ==
    IF p > Len(l) THEN qa
    ELSE IF l[p] \in {"(", "["}
    THEN LET before == IF p > 1 THEN l[p - 1] ELSE "\n"
         IN  QuotedAfter(l, p + 1,
                         IF \/ before = "'"
                            \/ (qa # -1 /\ before \in {"(", "["})
                         THEN p ELSE -1)
    ELSE QuotedAfter(l, p + 1, qa)

\* C34: an opening delimiter at column i sets quoted_align to i + 1 after
\* a quote mark, or after another opening delimiter if it was not 'none',
\* and to 'none' otherwise; no other character of a line changes it, and
\* the indentation check clears it only when it takes the exemption for the
\* quoted column.
C34_QuotedColumn ==
    (Scanned /\ ~pre.in_string) =>
        /\ line # QuotedIndented =>
               state.quoted_align = QuotedAfter(line, 1, pre.quoted_align)
        /\ line = QuotedIndented =>
               state.quoted_align =
                   IF pre.quoted_align = 2 /\ pre.stack[pre.depth] # 2
                   THEN -1 ELSE pre.quoted_align

\* A delimiter right after the delimiter of a quoted form has moved the
\* quoted column on.
C34_Witness ==
    /\ Scanned
    /\ line = <<"'", "(", "(", "a", "\n">>
    /\ state.quoted_align = 3

\* The ids and the names of the lines of SpecSiblings, one digit and one
\* letter each.
SiblingIds == { <<":", "1">>, <<":", "2">>, <<":", "3">> }

SiblingNames == { <<"a">>, <<"b">>, <<"c">> }

\* The use block with three subforms, at column 2, with a space before the
\* delimiter that closes it and the section form around it.
IdsLine(id1, id2, id3) ==
    Indented(2, <<"(", "u", "s", "e", " ", "(">> \o id1
                \o <<" ", "a", ")", " ", "(">> \o id2
                \o <<" ", "a", ")", " ", "(">> \o id3
                \o <<" ", "a", ")", " ", ")", ")">>)

\* The use block with one subform of three names, closed in the same way.
NamesThreeLine(n1, n2, n3) ==
    Indented(2, <<"(", "u", "s", "e", " ", "(", ":", "1", " ">> \o n1
                \o <<" ">> \o n2 \o <<" ">> \o n3 \o <<")", " ", ")", ")">>)

\* The triples of names that differ.
NameTriples ==
    {t \in SiblingNames \X SiblingNames \X SiblingNames :
        t[1] # t[2] /\ t[1] # t[3] /\ t[2] # t[3]}

\* Lines for siblings: the line that opens a section form, the use blocks
\* of three ids, and the use blocks of three names that differ.
SpecSiblings ==
    InitOne /\ [][NextOne(
        { <<"(", "E", "x", "e", "r", "c", "i", "s", "e", " ", "?", "1", "\n">> }
        \cup {IdsLine(id1, id2, id3) :
                id1 \in SiblingIds, id2 \in SiblingIds, id3 \in SiblingIds}
        \cup {NamesThreeLine(t[1], t[2], t[3]) : t \in NameTriples}
    )]_vars

\* The pairs of strings of the diagnostics in out with the message, in
\* the order in which they were printed.
PairsOf(msg) ==
    LET d == SelectSeq(out, LAMBDA x : x.msg = msg)
    IN  [k \in 1..Len(d) |-> <<d[k].s1, d[k].s2>>]

\* The pairs that are reported for the siblings s1, s2, s3 when each is
\* compared with the one just before it.
ReportedPairs(s1, s2, s3) ==
    (IF LexGreater(s1, s2) THEN << <<s1, s2>> >> ELSE <<>>)
    \o (IF LexGreater(s2, s3) THEN << <<s2, s3>> >> ELSE <<>>)

\* C35: with three sibling ids, or three names, each is compared with the
\* one just before it, reported or not, and after a report the rest of the
\* line is scanned: the space before the closing delimiter is reported
\* and both forms are closed.
C35_ScanAfterOrderViolation ==
    (FromIndent /\ pre.import_mode = IB_SEC /\ pre.depth = 1) =>
        /\ \A id1 \in SiblingIds, id2 \in SiblingIds, id3 \in SiblingIds :
               line = IdsLine(id1, id2, id3) =>
                   /\ PairsOf("incorrect import id ordering: %s > %.*s") =
                          ReportedPairs(id1, id2, id3)
                   /\ Cardinality(DiagsWith(out,
                          "unexpected space before ')'")) = 1
                   /\ state.depth = 0
                   /\ state.import_mode = IB_NONE
        /\ \A t \in NameTriples :
               line = NamesThreeLine(t[1], t[2], t[3]) =>
                   /\ PairsOf("incorrect import name ordering: %s > %.*s") =
                          ReportedPairs(t[1], t[2], t[3])
                   /\ Cardinality(DiagsWith(out,
                          "unexpected space before ')'")) = 1
                   /\ state.depth = 0
                   /\ state.import_mode = IB_NONE

\* The second of three ids was reported and the third, greater than the
\* second and less than the first, was not.
C35_Witness ==
    /\ Scanned
    /\ pre.import_mode = IB_SEC
    /\ line = IdsLine(<<":", "3">>, <<":", "1">>, <<":", "2">>)
    /\ PairsOf("incorrect import id ordering: %s > %.*s") =
           << << <<":", "3">>, <<":", "1">> >> >>
    /\ state.depth = pre.depth - 1

\* Lines around blank lines: the blank line; lines that leave a section
\* form, a subform of a use block, a quoted form, a wrapper form and a
\* string open; a comment line; a word.
SpecBlank ==
    InitOne /\ [][NextOne(
        { <<"\n">>,
          <<"(", "E", "x", "e", "r", "c", "i", "s", "e", " ", "?", "1", "\n">>,
          <<" ", " ", "(", "u", "s", "e", " ", "(", ":", "1", " ", "a", "\n">>,
          <<"'", "(", "a", " ", "b", "\n">>,
          <<"(", "S", "I", "C", "P", " ", "x", "\n">>,
          <<"\"", "\n">>,
          <<";", " ", "x", "\n">>,
          <<"x", "\n">> }
    )]_vars

\* C36: a blank line adds one to prev_blanks and changes nothing else of
\* the state but, with a diagnostic, the status; inside a string it gets no
\* diagnostic; every other line, a comment line too, leaves prev_blanks
\* at 0.
C36_BlankLine ==
    Scanned =>
        /\ line = <<"\n">> =>
               /\ state = [pre EXCEPT !.prev_blanks = @ + 1,
                                      !.status = IF out # <<>> THEN 1 ELSE @]
               /\ \A k \in 1..Len(out) : out[k].msg = "multiple blank lines"
               /\ pre.in_string => out = <<>>
        /\ line # <<"\n">> => state.prev_blanks = 0

\* The second blank line in a row inside a string got no diagnostic.
C36_Witness ==
    /\ Scanned
    /\ line = <<"\n">>
    /\ pre.in_string
    /\ pre.prev_blanks = 1
    /\ state.prev_blanks = 2
    /\ out = <<>>

\* Lines whose first character is ';': with a delimiter and a quote after
\* one marker, with three markers, with four markers and no space, with a
\* quote and a closing delimiter after one marker and no space.
MarkerLines ==
    { <<";", " ", "(", "x", " ", "\"", "y", "\n">>,
      <<";", ";", ";", " ", "x", "\n">>,
      <<";", ";", ";", ";", "(", "\n">>,
      <<";", "x", "\"", ")", "\n">> }

\* Lines around comment lines: the comment lines, the blank line, and lines
\* that leave a section form, a subform of a use block, a quoted form, a
\* wrapper form and a string open.
SpecCommentLines ==
    InitOne /\ [][NextOne(
        MarkerLines
        \cup { <<"\n">>,
               <<"(", "E", "x", "e", "r", "c", "i", "s", "e", " ", "?", "1",
                 "\n">>,
               <<" ", " ", "(", "u", "s", "e", " ", "(", ":", "1", " ", "a",
                 "\n">>,
               <<"'", "(", "a", " ", "b", "\n">>,
               <<"(", "S", "I", "C", "P", " ", "x", "\n">>,
               <<"\"", "\n">> }
    )]_vars

\* C37: a line whose first character is ';' sets prev_blanks to 0 and
\* changes nothing else of the state but, with a diagnostic, the status,
\* whatever follows the markers and also when a string is open.
C37_CommentLineFrame ==
    (Scanned /\ line \in MarkerLines) =>
        state = [pre EXCEPT !.prev_blanks = 0,
                            !.status = IF out # <<>> THEN 1 ELSE @]

\* A comment line with a quote in it was scanned while a string was open,
\* and the string is still open.
C37_Witness ==
    /\ Scanned
    /\ line = <<";", "x", "\"", ")", "\n">>
    /\ pre.in_string
    /\ state.in_string
    /\ out # <<>>

\* C38: on the well-formed ids, the order that correct_id_order gives to
\* the sibling ids a and then b of a scanned use block is that of a total
\* order: equal ids are in order, of two ids that differ exactly one order
\* is accepted, and if a, b is accepted and b, c is in order then so is
\* a, c.
C38_TotalOrder ==
    (FromIndent /\ pre.import_mode = IB_SEC /\ pre.depth = 1) =>
        \A a \in WellFormedIds, b \in WellFormedIds :
            line = UseLine(a, TRUE, b, TRUE) =>
                LET accepted == IdDiags = {}
                IN  /\ accepted = InIdOrder(a, b)
                    /\ a = b => accepted
                    /\ a # b => accepted # InIdOrder(b, a)
                    /\ accepted =>
                           \A c \in WellFormedIds :
                               InIdOrder(b, c) => InIdOrder(a, c)

\* The use block whose subform has an id of n characters and the name a.
LongIdLine(n) ==
    Indented(2, <<"(", "u", "s", "e", " ", "(", ":">> \o Rep("1", n - 1)
                \o <<" ", "a", ")", ")", ")">>)

\* The use block whose subform has the id :1 and two names, the first of
\* n characters.
LongNameLine(n) ==
    Indented(2, <<"(", "u", "s", "e", " ", "(", ":", "1", " ">>
                \o Rep("a", n) \o <<" ", "b", ")", ")", ")">>)

\* Lines for long ids and names: the line that opens a section form, the
\* use blocks, and lines of code.
\* The ids and names have MAX_COLUMNS - 1 characters, the longest that fits
\* a buffer of MAX_COLUMNS characters with its terminator, or one more.
SpecLong ==
    InitOne /\ [][NextOne(
        { <<"(", "E", "x", "e", "r", "c", "i", "s", "e", " ", "?", "1", "\n">>,
          <<"x", "\n">>, <<")", "\n">> }
        \cup {LongIdLine(n) : n \in {MAX_COLUMNS - 1, MAX_COLUMNS}}
        \cup {LongNameLine(n) : n \in {MAX_COLUMNS - 1, MAX_COLUMNS}}
    )]_vars

\* C39: no id and no name is stored outside its buffer: the behaviour
\* never becomes undefined, and the last id and the last name have fewer
\* than MAX_COLUMNS characters.
C39_StoredFitsBuffer ==
    /\ pc # "undefined"
    /\ InFile =>
           /\ Len(state.last_import_id) < MAX_COLUMNS
           /\ Len(state.last_import_name) < MAX_COLUMNS

\* C40: for a form opened at column k with the operator x, the stack entry
\* is k + 1, the column after the delimiter, if the terminator follows the
\* operator, and k + 3, the column of the first operand, if the operand
\* follows, at every column, those from 255 on included.
C40_StoredColumnExact ==
    Scanned =>
        \A k \in ColumnColumns, rest \in ColumnOperands :
            line = OpenLine(k, <<"x">>, rest) =>
                state.stack[state.depth] = IF rest = <<>> THEN k + 1 ELSE k + 3

=============================================================================
